---- MODULE Spec2Model ----
(***************************************************************************)
(* Model of the RAG service of jayanth922/ubuntu: the response cache       *)
(* (backend/rag_service/cache.py), the multi-hop trigger                   *)
(* (backend/rag_service/multi_hop.py), the canned answers of the answer    *)
(* synthesizer (backend/rag_service/answer_synthesizer.py) and the         *)
(* /retrieve handler (backend/rag_service/app.py).                         *)
(*                                                                         *)
(* Python strings are TLA+ strings; TLC evaluates Len, SubSeq, Head, Tail  *)
(* and \o on them.  An Optional value is a sequence of length 0 (None) or  *)
(* 1.  Scores and confidences are in hundredths (0.3 is 30).  time.time()  *)
(* is the integer clock now.                                               *)
(***************************************************************************)
EXTENDS Integers, Sequences, FiniteSets, TLC

VARIABLES response_cache, redis, now, last, lastSet, written, calls,
          components, threads, reasoning_state

vars == <<response_cache, redis, now, last, lastSet, written, calls,
          components, threads, reasoning_state>>

(***************************************************************************)
(* Bounds of the model.                                                    *)
(***************************************************************************)
\* the size limit of the in-memory map (1000 in cache.py:166), scaled down
MemoryLimit == 1
\* ResponseCache.ttl, the default time to live (a constructor argument)
DefaultTtl == 1
\* the clock stops advancing here
MaxTime == 2
\* number of cache calls in one behaviour: enough to overflow the map
MaxCalls == MemoryLimit + 1

None == <<>>
Some(x) == <<x>>

\* no reasoning call is running
NoReasoning == [pc |-> "idle"]

(***************************************************************************)
(* Python string operations.                                               *)
(***************************************************************************)
UpperChars == "ABCDEFGHIJKLMNOPQRSTUVWXYZ"
LowerChars == "abcdefghijklmnopqrstuvwxyz"
WhitespaceChars == {" ", "\t", "\n", "\r"}

CharAt(s, i) == SubSeq(s, i, i)

\* str.lower() on one character
LowerMap ==
    [c \in {CharAt(UpperChars, i) : i \in 1..26} |->
        CharAt(LowerChars, CHOOSE i \in 1..26 : CharAt(UpperChars, i) = c)]

LowerChar(c) == IF c \in DOMAIN LowerMap THEN LowerMap[c] ELSE c

RECURSIVE LowerAll(_)
LowerAll(s) ==
    IF Len(s) = 0 THEN "" ELSE LowerChar(Head(s)) \o LowerAll(Tail(s))

StripEnds(s) ==
    LET keep == {i \in 1..Len(s) : CharAt(s, i) \notin WhitespaceChars}
    IN  IF keep = {} THEN ""
        ELSE SubSeq(s, CHOOSE i \in keep : \A j \in keep : i <= j,
                       CHOOSE i \in keep : \A j \in keep : i >= j)

\* the query and intent strings of the model; lower() and strip() of these
\* are tabulated once
KnownStrings ==
    {"Install Firefox", " install firefox ", "shutdown", "MakeUpdate",
     "ShutdownComputer", "What is apt?",
     "I tried updating but the error still shows",
     "I tried updating but it does not work",
     "Update the driver and check the dependencies of the package",
     "General notes about the desktop",
     "Reinstall the kernel driver with sudo permissions",
     "Set the permissions of the file with sudo chmod",
     "Unrelated text", "Kernel upgrade"}

LowerTable == [s \in KnownStrings |-> LowerAll(s)]
StripTable == [s \in {LowerTable[x] : x \in KnownStrings} |-> StripEnds(s)]

\* str.lower()
str_lower(s) == IF s \in DOMAIN LowerTable THEN LowerTable[s] ELSE LowerAll(s)

\* str.strip(): drop leading and trailing whitespace
str_strip(s) == IF s \in DOMAIN StripTable THEN StripTable[s] ELSE StripEnds(s)

\* sub in s
str_contains(s, sub) ==
    \E i \in 1..(Len(s) - Len(sub) + 1) : SubSeq(s, i, i + Len(sub) - 1) = sub

\* str(n) for an int
RECURSIVE str_nat(_)
str_nat(n) ==
    IF n < 10 THEN CharAt("0123456789", n + 1)
    ELSE str_nat(n \div 10) \o CharAt("0123456789", (n % 10) + 1)

str_int(n) == IF n < 0 THEN "-" \o str_nat(0 - n) ELSE str_nat(n)

\* sep.join(parts)
RECURSIVE str_join(_, _)
str_join(sep, parts) ==
    IF Len(parts) = 0 THEN ""
    ELSE IF Len(parts) = 1 THEN parts[1]
    ELSE parts[1] \o sep \o str_join(sep, Tail(parts))

\* hashlib.md5(s).hexdigest(): a digest that determines its input (no two of
\* the key strings of the model collide under MD5)
md5_hexdigest(s) == "md5(" \o s \o ")"

\* json.dumps / json.loads on a response dict (strings, lists, numbers, None)
json_dumps(data) == [json |-> data]
json_loads(text) == text.json

(***************************************************************************)
(* ResponseCache (cache.py).                                               *)
(***************************************************************************)
Namespace == "rag"

\* ResponseCache.__init__
NewCache(has_redis, is_disabled) ==
    [ttl |-> DefaultTtl, namespace |-> Namespace, disabled |-> is_disabled,
     stats |-> [hits |-> 0, misses |-> 0, errors |-> 0],
     memory_cache |-> <<>>,
     redis_client |-> IF has_redis /\ ~is_disabled THEN Some("redis") ELSE None]

\* a keyword argument of a call
Kw(k, v) == [k |-> k, v |-> v]

\* the "k:v" parts of the keyword arguments, in the order of the call
RECURSIVE KwargParts(_)
KwargParts(kwargs) ==
    IF Len(kwargs) = 0 THEN <<>>
    ELSE (IF kwargs[1].v # None
          THEN <<kwargs[1].k \o ":" \o str_int(kwargs[1].v[1])>>
          ELSE <<>>) \o KwargParts(Tail(kwargs))

\* _generate_key without the lower() of the query
_generate_key_no_lower(self, query, intent, kwargs) ==
    IF self.disabled THEN ""
    ELSE LET q == str_strip(query)
             key_parts == <<q>>
                 \o (IF intent # None /\ intent[1] # ""
                     THEN <<"intent:" \o str_lower(intent[1])>> ELSE <<>>)
                 \o KwargParts(kwargs)
             key_str == str_join(":", key_parts)
         IN  self.namespace \o ":" \o md5_hexdigest(key_str)

\* the digest of the key string of a call (lines 60 to 76)
KeyDigest(query, intent, kwargs) ==
    LET q == str_strip(str_lower(query))
        key_parts == <<q>>
            \o (IF intent # None /\ intent[1] # ""
                THEN <<"intent:" \o str_lower(intent[1])>> ELSE <<>>)
            \o KwargParts(kwargs)
        key_str == str_join(":", key_parts)
    IN  md5_hexdigest(key_str)

\* the keyword arguments the callers of the model give
KnownKwargs ==
    {<<>>, <<Kw("top_k", Some(1))>>, <<Kw("top_k", Some(3))>>,
     <<Kw("top_k", Some(5))>>,
     <<Kw("top_k", Some(3)), Kw("session", Some(12))>>,
     <<Kw("session", Some(12)), Kw("top_k", Some(3))>>}

\* the intents the callers of the model give
KnownIntents == {None} \cup {Some(i) : i \in KnownStrings}

\* KeyDigest of the queries, intents and keyword arguments of the calls of
\* the model, computed once
KeyTable ==
    [query \in KnownStrings |->
        [intent \in KnownIntents |->
            [kwargs \in KnownKwargs |-> KeyDigest(query, intent, kwargs)]]]

\* ResponseCache._generate_key
_generate_key(self, query, intent, kwargs) ==
    IF self.disabled THEN ""
    ELSE self.namespace \o ":" \o KeyTable[query][intent][kwargs]

\* position of key in the dict (0 when absent); a dict keeps insertion order
DictIndex(d, key) ==
    IF \E i \in 1..Len(d) : d[i].key = key
    THEN CHOOSE i \in 1..Len(d) : d[i].key = key
    ELSE 0

\* del d[key]
DictDel(d, key) ==
    LET i == DictIndex(d, key)
    IN  IF i = 0 THEN d ELSE SubSeq(d, 1, i - 1) \o SubSeq(d, i + 1, Len(d))

\* d[key] = item: an existing key keeps its position, a new one goes last
DictPut(d, key, item) ==
    LET i == DictIndex(d, key)
        e == [key |-> key, data |-> item.data, expires_at |-> item.expires_at]
    IN  IF i = 0 THEN Append(d, e) ELSE [d EXCEPT ![i] = e]

Bump(self, counter) ==
    [self EXCEPT !.stats = [@ EXCEPT ![counter] = @ + 1]]

Miss == [kind |-> "miss"]
Hit(data) == [kind |-> "hit", data |-> data]

\* a live entry of the redis server
RedisLive(srv, key, t) == key \in DOMAIN srv.data /\ t < srv.data[key].expires_at

\* a get that still returns an entry at its expiry time
get_at_expiry(self, srv, t, query, intent, kwargs) ==
    IF self.disabled THEN [cache |-> self, ret |-> Miss, raised |-> FALSE]
    ELSE
    LET key == _generate_key(self, query, intent, kwargs)
        i == DictIndex(self.memory_cache, key)
    IN  IF self.redis_client # None /\ ~srv.up
        THEN \* redis_client.get raises: the except branch
             [cache |-> Bump(self, "errors"), ret |-> Miss, raised |-> TRUE]
        ELSE IF self.redis_client # None /\ RedisLive(srv, key, t)
        THEN [cache |-> Bump(self, "hits"),
              ret |-> Hit(json_loads(srv.data[key].value)), raised |-> FALSE]
        ELSE IF i # 0 /\ t <= self.memory_cache[i].expires_at
        THEN [cache |-> Bump(self, "hits"),
              ret |-> Hit(self.memory_cache[i].data), raised |-> FALSE]
        ELSE IF i # 0
        THEN [cache |-> Bump([self EXCEPT !.memory_cache = DictDel(@, key)],
                             "misses"),
              ret |-> Miss, raised |-> FALSE]
        ELSE [cache |-> Bump(self, "misses"), ret |-> Miss, raised |-> FALSE]

\* a get that counts an entry of redis as a hit and as a miss
get_hit_and_miss(self, srv, t, query, intent, kwargs) ==
    IF self.disabled THEN [cache |-> self, ret |-> Miss, raised |-> FALSE]
    ELSE
    LET key == _generate_key(self, query, intent, kwargs)
        i == DictIndex(self.memory_cache, key)
    IN  IF self.redis_client # None /\ ~srv.up
        THEN \* redis_client.get raises: the except branch
             [cache |-> Bump(self, "errors"), ret |-> Miss, raised |-> TRUE]
        ELSE IF self.redis_client # None /\ RedisLive(srv, key, t)
        THEN [cache |-> Bump(Bump(self, "hits"), "misses"),
              ret |-> Hit(json_loads(srv.data[key].value)), raised |-> FALSE]
        ELSE IF i # 0 /\ t < self.memory_cache[i].expires_at
        THEN [cache |-> Bump(self, "hits"),
              ret |-> Hit(self.memory_cache[i].data), raised |-> FALSE]
        ELSE IF i # 0
        THEN [cache |-> Bump([self EXCEPT !.memory_cache = DictDel(@, key)],
                             "misses"),
              ret |-> Miss, raised |-> FALSE]
        ELSE [cache |-> Bump(self, "misses"), ret |-> Miss, raised |-> FALSE]

\* ResponseCache.get; the result is the new cache and the value returned
get(self, srv, t, query, intent, kwargs) ==
    IF self.disabled THEN [cache |-> self, ret |-> Miss, raised |-> FALSE]
    ELSE
    LET key == _generate_key(self, query, intent, kwargs)
        i == DictIndex(self.memory_cache, key)
    IN  IF self.redis_client # None /\ ~srv.up
        THEN \* redis_client.get raises: the except branch
             [cache |-> Bump(self, "errors"), ret |-> Miss, raised |-> TRUE]
        ELSE IF self.redis_client # None /\ RedisLive(srv, key, t)
        THEN [cache |-> Bump(self, "hits"),
              ret |-> Hit(json_loads(srv.data[key].value)), raised |-> FALSE]
        ELSE IF i # 0 /\ t < self.memory_cache[i].expires_at
        THEN [cache |-> Bump(self, "hits"),
              ret |-> Hit(self.memory_cache[i].data), raised |-> FALSE]
        ELSE IF i # 0
        THEN [cache |-> Bump([self EXCEPT !.memory_cache = DictDel(@, key)],
                             "misses"),
              ret |-> Miss, raised |-> FALSE]
        ELSE [cache |-> Bump(self, "misses"), ret |-> Miss, raised |-> FALSE]

\* a scan that takes the entry inserted first
OldestIndex_first_inserted(d) == 1

\* the first entry with the smallest expires_at (the scan of set)
OldestIndex(d) ==
    CHOOSE i \in 1..Len(d) :
        /\ \A j \in 1..Len(d) : d[i].expires_at <= d[j].expires_at
        /\ \A j \in 1..(i - 1) : d[j].expires_at > d[i].expires_at

\* size management that lets one entry too many stay
EvictOldest_late(d) ==
    IF Len(d) > MemoryLimit + 1
    THEN DictDel(d, d[OldestIndex(d)].key)
    ELSE d

\* the size management of set: more than the limit, remove the oldest
EvictOldest(d) ==
    IF Len(d) > MemoryLimit
    THEN DictDel(d, d[OldestIndex(d)].key)
    ELSE d

\* ResponseCache.set
set(self, srv, t, query, data, intent, ttl, kwargs) ==
    IF self.disabled
    THEN [cache |-> self, redis |-> srv, ret |-> FALSE, raised |-> FALSE]
    ELSE
    LET key == _generate_key(self, query, intent, kwargs)
        cache_ttl == IF ttl # None THEN ttl[1] ELSE self.ttl
    IN  IF self.redis_client # None
        THEN IF ~srv.up \/ cache_ttl <= 0
             THEN \* setex raises (no connection, or an invalid expire time)
                  [cache |-> Bump(self, "errors"), redis |-> srv,
                   ret |-> FALSE, raised |-> TRUE]
             ELSE [cache |-> self,
                   redis |-> [srv EXCEPT !.data =
                       (key :> [value |-> json_dumps(data),
                                expires_at |-> t + cache_ttl])
                       @@ srv.data],
                   ret |-> TRUE, raised |-> FALSE]
        ELSE [cache |-> [self EXCEPT !.memory_cache =
                  EvictOldest(DictPut(@, key,
                      [data |-> data, expires_at |-> t + cache_ttl]))],
              redis |-> srv, ret |-> TRUE, raised |-> FALSE]

\* ResponseCache.delete
delete(self, srv, t, query, intent, kwargs) ==
    IF self.disabled
    THEN [cache |-> self, redis |-> srv, ret |-> FALSE, raised |-> FALSE]
    ELSE
    LET key == _generate_key(self, query, intent, kwargs)
    IN  IF self.redis_client # None
        THEN IF ~srv.up
             THEN [cache |-> Bump(self, "errors"), redis |-> srv,
                   ret |-> FALSE, raised |-> TRUE]
             ELSE [cache |-> self,
                   redis |-> [srv EXCEPT !.data =
                       [k \in (DOMAIN srv.data) \ {key} |-> srv.data[k]]],
                   ret |-> RedisLive(srv, key, t), raised |-> FALSE]
        ELSE IF DictIndex(self.memory_cache, key) # 0
        THEN [cache |-> [self EXCEPT !.memory_cache = DictDel(@, key)],
              redis |-> srv, ret |-> TRUE, raised |-> FALSE]
        ELSE [cache |-> self, redis |-> srv, ret |-> FALSE, raised |-> FALSE]

\* a redis glob pattern "prefix*" against a key (the patterns of the model
\* end in one "*" and have no other metacharacter)
GlobMatch(pattern, key) ==
    LET n == Len(pattern)
    IN  IF n > 0 /\ CharAt(pattern, n) = "*"
        THEN Len(key) >= n - 1 /\ SubSeq(key, 1, n - 1) = SubSeq(pattern, 1, n - 1)
        ELSE key = pattern

\* ResponseCache.flush
flush(self, srv, t, pattern_arg) ==
    IF self.disabled
    THEN [cache |-> self, redis |-> srv, ret |-> 0, raised |-> FALSE]
    ELSE
    LET pattern == IF pattern_arg = None THEN self.namespace \o ":*"
                   ELSE pattern_arg[1]
        keys == {k \in DOMAIN srv.data :
                    t < srv.data[k].expires_at /\ GlobMatch(pattern, k)}
    IN  IF self.redis_client # None
        THEN IF ~srv.up
             THEN [cache |-> Bump(self, "errors"), redis |-> srv,
                   ret |-> 0, raised |-> TRUE]
             ELSE [cache |-> self,
                   redis |-> [srv EXCEPT !.data =
                       [k \in (DOMAIN srv.data) \ keys |-> srv.data[k]]],
                   ret |-> Cardinality(keys), raised |-> FALSE]
        ELSE IF str_contains(pattern, self.namespace)
        THEN [cache |-> [self EXCEPT !.memory_cache = <<>>], redis |-> srv,
              ret |-> Len(self.memory_cache), raised |-> FALSE]
        ELSE [cache |-> self, redis |-> srv, ret |-> 0, raised |-> FALSE]

\* a quotient of two counters, in lowest terms
RECURSIVE Gcd(_, _)
Gcd(a, b) == IF b = 0 THEN a ELSE Gcd(b, a % b)
Ratio(n, d) == [num |-> n \div Gcd(n, d), den |-> d \div Gcd(n, d)]

\* ResponseCache.get_stats; the figures of redis_client.info() are left out
get_stats(self) ==
    IF self.disabled THEN [status |-> "disabled"]
    ELSE LET total == self.stats.hits + self.stats.misses
         IN  [hits |-> self.stats.hits, misses |-> self.stats.misses,
              errors |-> self.stats.errors, total |-> total,
              hit_ratio |-> IF total > 0 THEN Ratio(self.stats.hits, total)
                            ELSE Ratio(0, 1),
              type |-> IF self.redis_client # None THEN "redis" ELSE "memory",
              size |-> IF self.redis_client = None
                       THEN Some(Len(self.memory_cache)) ELSE None]

(***************************************************************************)
(* Calls made on the cache.                                                *)
(***************************************************************************)
\* the argument lists the callers of the model use
CallArgs == <<
    [query |-> "Install Firefox", intent |-> Some("MakeUpdate"),
     kwargs |-> <<Kw("top_k", Some(3))>>],
    [query |-> " install firefox ", intent |-> Some("MakeUpdate"),
     kwargs |-> <<Kw("top_k", Some(3))>>],
    [query |-> "Install Firefox", intent |-> Some("MakeUpdate"),
     kwargs |-> <<Kw("top_k", Some(5))>>],
    [query |-> "Install Firefox", intent |-> Some("MakeUpdate"),
     kwargs |-> <<Kw("top_k", Some(3)), Kw("session", Some(12))>>],
    [query |-> "Install Firefox", intent |-> Some("MakeUpdate"),
     kwargs |-> <<Kw("session", Some(12)), Kw("top_k", Some(3))>>],
    [query |-> "shutdown", intent |-> None, kwargs |-> <<>>] >>

ArgIds == 1..Len(CallArgs)

\* a response dict, as RAGResponse.dict() gives it
Response(text, sources, confidence, rewritten) ==
    [response |-> text, sources |-> sources, confidence |-> confidence,
     rewritten_query |-> rewritten]

Payloads == {Response("answer one", <<>>, 90, None),
             Response("answer two", <<>>, 60, None)}

\* the ttl argument of set: absent, or an override
TtlArgs == {None, Some(2)}

\* the pattern argument of flush
FlushPatterns ==
    {None, Some("rag:*"), Some("other:*"), Some("rag:md5(shutdown*")}

NoCall == [op |-> "none"]
NoSet == [valid |-> FALSE]

\* the durable backend is configured and unreachable
Outage == response_cache.redis_client # None /\ ~redis.up

\* the entry of key is held by the backend in use
Holds(self, srv, key) ==
    IF self.redis_client # None THEN key \in DOMAIN srv.data
    ELSE DictIndex(self.memory_cache, key) # 0

CacheGet(id) ==
    /\ calls < MaxCalls
    /\ LET a == CallArgs[id]
           r == get(response_cache, redis, now, a.query, a.intent, a.kwargs)
       IN  /\ response_cache' = r.cache
           /\ last' = [op |-> "get", id |-> id, a |-> a, ret |-> r.ret,
                       raised |-> r.raised, t |-> now, outage |-> Outage]
    /\ calls' = calls + 1
    /\ UNCHANGED <<redis, now, lastSet, written, components, threads,
                   reasoning_state>>

CacheSet(id, data, ttl) ==
    /\ calls < MaxCalls
    /\ LET a == CallArgs[id]
           r == set(response_cache, redis, now, a.query, data, a.intent, ttl,
                    a.kwargs)
           key == _generate_key(response_cache, a.query, a.intent, a.kwargs)
       IN  /\ response_cache' = r.cache
           /\ redis' = r.redis
           /\ last' = [op |-> "set", id |-> id, a |-> a, data |-> data,
                       ttl |-> ttl, ret |-> r.ret, raised |-> r.raised,
                       t |-> now, outage |-> Outage,
                       overflow |-> Len(response_cache.memory_cache) = MemoryLimit
                                    /\ Len(r.cache.memory_cache) = MemoryLimit
                                    /\ r.cache.memory_cache
                                         # response_cache.memory_cache
                                    /\ DictIndex(response_cache.memory_cache,
                                                 key) = 0]
           /\ lastSet' = IF r.ret
                         THEN [valid |-> TRUE, id |-> id, a |-> a,
                               data |-> data, ttl |-> ttl, t |-> now,
                               outage |-> Outage,
                               kept |-> Holds(r.cache, r.redis, key)]
                         ELSE NoSet
           /\ written' = IF r.ret THEN written \cup {id} ELSE written
    /\ calls' = calls + 1
    /\ UNCHANGED <<now, components, threads, reasoning_state>>

CacheDelete(id) ==
    /\ calls < MaxCalls
    /\ LET a == CallArgs[id]
           r == delete(response_cache, redis, now, a.query, a.intent, a.kwargs)
       IN  /\ response_cache' = r.cache
           /\ redis' = r.redis
           /\ last' = [op |-> "delete", id |-> id, a |-> a, ret |-> r.ret,
                       raised |-> r.raised, t |-> now, outage |-> Outage]
    /\ lastSet' = NoSet
    /\ calls' = calls + 1
    /\ UNCHANGED <<now, written, components, threads, reasoning_state>>

CacheStats ==
    /\ calls < MaxCalls
    /\ last' = [op |-> "get_stats", ret |-> get_stats(response_cache),
                t |-> now, outage |-> Outage]
    /\ calls' = calls + 1
    /\ UNCHANGED <<response_cache, redis, now, lastSet, written, components,
                   threads, reasoning_state>>

CacheFlush(pattern) ==
    /\ calls < MaxCalls
    /\ LET r == flush(response_cache, redis, now, pattern)
       IN  /\ response_cache' = r.cache
           /\ redis' = r.redis
           /\ last' = [op |-> "flush", pattern |-> pattern, ret |-> r.ret,
                       raised |-> r.raised, t |-> now, outage |-> Outage]
    /\ lastSet' = NoSet
    /\ calls' = calls + 1
    /\ UNCHANGED <<now, written, components, threads, reasoning_state>>

\* time passes
Tick ==
    /\ now < MaxTime
    /\ now' = now + 1
    /\ UNCHANGED <<response_cache, redis, last, lastSet, written, calls, components,
                   threads, reasoning_state>>

\* the redis server becomes unreachable, and reachable again
RedisDown ==
    /\ response_cache.redis_client # None
    /\ redis.up
    /\ redis' = [redis EXCEPT !.up = FALSE]
    /\ UNCHANGED <<response_cache, now, last, lastSet, written, calls, components,
                   threads, reasoning_state>>

RedisUp ==
    /\ response_cache.redis_client # None
    /\ ~redis.up
    /\ redis' = [redis EXCEPT !.up = TRUE]
    /\ UNCHANGED <<response_cache, now, last, lastSet, written, calls, components,
                   threads, reasoning_state>>

NoRedisData == [k \in {} |-> [value |-> json_dumps(0), expires_at |-> 0]]

\* the components initialize_services leaves behind
Components(se, qr, cr, syn, opt, mhr, corpus) ==
    [search_engine |-> se, query_rewriter |-> qr, contextual_rewriter |-> cr,
     answer_synthesizer |-> syn, query_optimizer |-> opt,
     multi_hop_reasoner |-> mhr, corpus |-> corpus]

\* before startup every global is None
NoComponents == Components(FALSE, FALSE, FALSE, FALSE, FALSE, FALSE, "empty")

\* the cache after construction: in memory, on redis, or disabled
InitCache(up_values) ==
    /\ \E has_redis \in BOOLEAN, is_disabled \in BOOLEAN :
          response_cache = NewCache(has_redis, is_disabled)
    /\ \E up \in up_values : redis = [up |-> up, data |-> NoRedisData]
    /\ (response_cache.redis_client = None => redis.up)
    /\ now = 0
    /\ last = NoCall
    /\ lastSet = NoSet
    /\ written = {}
    /\ calls = 0
    /\ components = NoComponents
    /\ threads = <<>>
    /\ reasoning_state = NoReasoning

Init == InitCache({TRUE})

CacheCall ==
    \/ \E id \in ArgIds : CacheGet(id)
    \/ \E id \in ArgIds, data \in Payloads, ttl \in TtlArgs :
          CacheSet(id, data, ttl)
    \/ \E id \in ArgIds : CacheDelete(id)
    \/ \E pattern \in FlushPatterns : CacheFlush(pattern)
    \/ CacheStats

Next == CacheCall \/ Tick

\* the cache with its backend reachable whenever it is configured
Spec == Init /\ [][Next]_vars

\* the in-memory caches that n calls of set at time 0 leave behind
RECURSIVE FilledCaches(_)
FilledCaches(n) ==
    IF n = 0 THEN {NewCache(FALSE, FALSE)}
    ELSE {set(c, [up |-> TRUE, data |-> NoRedisData], 0, CallArgs[id].query,
              Response("answer one", <<>>, 90, None), CallArgs[id].intent,
              ttl, CallArgs[id].kwargs).cache :
             c \in FilledCaches(n - 1), id \in ArgIds, ttl \in TtlArgs}

\* the in-memory backend with its map at capacity
InitFull ==
    /\ response_cache \in {c \in FilledCaches(MemoryLimit) :
                              Len(c.memory_cache) = MemoryLimit}
    /\ redis = [up |-> TRUE, data |-> NoRedisData]
    /\ now = 0
    /\ last = NoCall
    /\ lastSet = NoSet
    /\ written = {}
    /\ calls = 0
    /\ components = NoComponents
    /\ threads = <<>>
    /\ reasoning_state = NoReasoning

\* a set on the full map, then a get, while time passes
NextFull ==
    \/ \E id \in ArgIds, data \in Payloads, ttl \in TtlArgs :
          calls = 0 /\ CacheSet(id, data, ttl)
    \/ \E id \in ArgIds : calls = 1 /\ CacheGet(id)
    \/ Tick

SpecFull == InitFull /\ [][NextFull]_vars

InitOutage ==
    /\ InitCache(BOOLEAN)
    /\ response_cache.redis_client # None

NextOutage == CacheCall \/ Tick \/ RedisDown \/ RedisUp

\* the cache on a durable backend that goes away and comes back
SpecOutage == InitOutage /\ [][NextOutage]_vars

(***************************************************************************)
(* Concurrent callers of the in-memory cache.  A thread runs get, set or   *)
(* delete one dict operation at a time; the interpreter may switch threads *)
(* between any two of them (the class holds no lock).  The counters of     *)
(* stats are updated together with the step that decides the outcome.      *)
(***************************************************************************)
NThreads == 2
Threads == 1..NThreads

\* calls started by all threads in one behaviour
MaxThreadCalls == MemoryLimit + 2

\* the arguments and the payload the threads use
ThreadArgIds == {1, 3}
ThreadPayload == Response("answer one", <<>>, 90, None)

Idle == [pc |-> "idle"]

\* the frame of a call: its arguments, its key and its local variables
Frame(op, id, key, pc) ==
    [pc |-> pc, op |-> op, id |-> id, key |-> key, item |-> None,
     it_pos |-> 0, it_size |-> 0, dirty |-> FALSE,
     oldest_key |-> None, oldest_time |-> None,
     ret |-> None, raised |-> FALSE]

\* the call of thread t returns ret
Return(t, ret) ==
    [threads EXCEPT ![t] = [@ EXCEPT !.pc = "done", !.ret = Some(ret)]]

\* another thread has changed the keys of the dict under the scan of u
MarkDirty(thr, t) ==
    [u \in DOMAIN thr |->
        IF u # t /\ thr[u].pc = "set_scan"
        THEN [thr[u] EXCEPT !.dirty = TRUE] ELSE thr[u]]

\* the except branch of get, set and delete: count an error, return None/False
Fail(t) ==
    /\ response_cache' = Bump(response_cache, "errors")
    /\ threads' = [threads EXCEPT ![t] =
           [@ EXCEPT !.pc = "done", !.raised = TRUE,
                     !.ret = IF threads[t].op = "get" THEN Some(Miss)
                            ELSE Some(FALSE)]]

ThreadVarsUnchanged ==
    UNCHANGED <<redis, now, last, lastSet, written, components,
                reasoning_state>>

\* a thread enters get, set or delete and computes the key
ThreadBegin(t, op, id) ==
    /\ threads[t].pc \in {"idle", "done"}
    /\ calls < MaxThreadCalls
    /\ LET a == CallArgs[id]
           key == _generate_key(response_cache, a.query, a.intent, a.kwargs)
       IN  threads' = [threads EXCEPT ![t] =
               Frame(op, id, key,
                     CASE op = "get" -> "get_check"
                       [] op = "set" -> "set_put"
                       [] op = "delete" -> "delete_check")]
    /\ calls' = calls + 1
    /\ UNCHANGED response_cache
    /\ ThreadVarsUnchanged

\* get: if key in self.memory_cache
GetCheck(t) ==
    /\ threads[t].pc = "get_check"
    /\ IF DictIndex(response_cache.memory_cache, threads[t].key) # 0
       THEN /\ threads' = [threads EXCEPT ![t].pc = "get_read"]
            /\ UNCHANGED response_cache
       ELSE /\ response_cache' = Bump(response_cache, "misses")
            /\ threads' = Return(t, Miss)
    /\ UNCHANGED calls
    /\ ThreadVarsUnchanged

\* get: item = self.memory_cache[key]
GetRead(t) ==
    /\ threads[t].pc = "get_read"
    /\ LET i == DictIndex(response_cache.memory_cache, threads[t].key)
       IN  IF i = 0
           THEN Fail(t)   \* KeyError
           ELSE /\ threads' = [threads EXCEPT ![t] =
                       [@ EXCEPT !.pc = "get_expiry",
                                 !.item = Some(response_cache.memory_cache[i])]]
                /\ UNCHANGED response_cache
    /\ UNCHANGED calls
    /\ ThreadVarsUnchanged

\* get: if time.time() < item["expires_at"]
GetExpiry(t) ==
    /\ threads[t].pc = "get_expiry"
    /\ IF now < threads[t].item[1].expires_at
       THEN /\ response_cache' = Bump(response_cache, "hits")
            /\ threads' = Return(t, Hit(threads[t].item[1].data))
       ELSE /\ threads' = [threads EXCEPT ![t].pc = "get_del"]
            /\ UNCHANGED response_cache
    /\ UNCHANGED calls
    /\ ThreadVarsUnchanged

\* get: del self.memory_cache[key], then the miss
GetDel(t) ==
    /\ threads[t].pc = "get_del"
    /\ IF DictIndex(response_cache.memory_cache, threads[t].key) = 0
       THEN Fail(t)   \* KeyError
       ELSE /\ response_cache' =
                   Bump([response_cache EXCEPT !.memory_cache =
                             DictDel(@, threads[t].key)], "misses")
            /\ threads' = MarkDirty(Return(t, Miss), t)
    /\ UNCHANGED calls
    /\ ThreadVarsUnchanged

\* set: self.memory_cache[key] = {"data": ..., "expires_at": ...}
SetPut(t) ==
    /\ threads[t].pc = "set_put"
    /\ response_cache' = [response_cache EXCEPT !.memory_cache =
           DictPut(@, threads[t].key,
                   [data |-> ThreadPayload,
                    expires_at |-> now + response_cache.ttl])]
    /\ LET thr == [threads EXCEPT ![t].pc = "set_len"]
       IN  threads' =
             IF DictIndex(response_cache.memory_cache, threads[t].key) = 0
             THEN MarkDirty(thr, t) ELSE thr
    /\ UNCHANGED calls
    /\ ThreadVarsUnchanged

\* set: if len(self.memory_cache) > limit, start the scan
SetLen(t) ==
    /\ threads[t].pc = "set_len"
    /\ threads' =
         IF Len(response_cache.memory_cache) > MemoryLimit
         THEN [threads EXCEPT ![t] =
                  [@ EXCEPT !.pc = "set_scan", !.it_pos = 1,
                            !.it_size = Len(response_cache.memory_cache),
                            !.dirty = FALSE]]
         ELSE Return(t, TRUE)
    /\ UNCHANGED <<response_cache, calls>>
    /\ ThreadVarsUnchanged

\* set: one turn of "for k, v in self.memory_cache.items()".  The iterator
\* raises RuntimeError when the size of the dict has changed; when another
\* thread has changed the keys and the size is the same again it raises or
\* goes on over the changed entries.
SetScan(t) ==
    /\ threads[t].pc = "set_scan"
    /\ LET d == response_cache.memory_cache
           f == threads[t]
       IN  \/ /\ Len(d) # f.it_size \/ f.dirty
              /\ Fail(t)
           \/ /\ Len(d) = f.it_size
              /\ UNCHANGED response_cache
              /\ threads' =
                   IF f.it_pos > Len(d)
                   THEN [threads EXCEPT ![t].pc = "set_evict"]
                   ELSE IF f.oldest_time = None
                           \/ d[f.it_pos].expires_at < f.oldest_time[1]
                   THEN [threads EXCEPT ![t] =
                            [@ EXCEPT !.it_pos = @ + 1,
                                      !.oldest_key = Some(d[f.it_pos].key),
                                      !.oldest_time =
                                          Some(d[f.it_pos].expires_at)]]
                   ELSE [threads EXCEPT ![t].it_pos = @ + 1]
    /\ UNCHANGED calls
    /\ ThreadVarsUnchanged

\* set: if oldest_key: del self.memory_cache[oldest_key]
SetEvict(t) ==
    /\ threads[t].pc = "set_evict"
    /\ LET f == threads[t]
       IN  IF f.oldest_key = None
           THEN /\ threads' = Return(t, TRUE)
                /\ UNCHANGED response_cache
           ELSE IF DictIndex(response_cache.memory_cache, f.oldest_key[1]) = 0
           THEN Fail(t)   \* KeyError
           ELSE /\ response_cache' = [response_cache EXCEPT !.memory_cache =
                       DictDel(@, f.oldest_key[1])]
                /\ threads' = MarkDirty(Return(t, TRUE), t)
    /\ UNCHANGED calls
    /\ ThreadVarsUnchanged

\* delete: if key in self.memory_cache
DeleteCheck(t) ==
    /\ threads[t].pc = "delete_check"
    /\ threads' =
         IF DictIndex(response_cache.memory_cache, threads[t].key) # 0
         THEN [threads EXCEPT ![t].pc = "delete_del"]
         ELSE Return(t, FALSE)
    /\ UNCHANGED <<response_cache, calls>>
    /\ ThreadVarsUnchanged

\* delete: del self.memory_cache[key]
DeleteDel(t) ==
    /\ threads[t].pc = "delete_del"
    /\ IF DictIndex(response_cache.memory_cache, threads[t].key) = 0
       THEN Fail(t)   \* KeyError
       ELSE /\ response_cache' = [response_cache EXCEPT !.memory_cache =
                   DictDel(@, threads[t].key)]
            /\ threads' = MarkDirty(Return(t, TRUE), t)
    /\ UNCHANGED calls
    /\ ThreadVarsUnchanged

InitThreads ==
    /\ response_cache = NewCache(FALSE, FALSE)
    /\ redis = [up |-> TRUE, data |-> NoRedisData]
    /\ now = 0
    /\ last = NoCall
    /\ lastSet = NoSet
    /\ written = {}
    /\ calls = 0
    /\ components = NoComponents
    /\ threads = [t \in Threads |-> Idle]
    /\ reasoning_state = NoReasoning

NextThreads ==
    \/ \E t \in Threads, op \in {"get", "set", "delete"}, id \in ThreadArgIds :
          ThreadBegin(t, op, id)
    \/ \E t \in Threads :
          \/ GetCheck(t) \/ GetRead(t) \/ GetExpiry(t) \/ GetDel(t)
          \/ SetPut(t) \/ SetLen(t) \/ SetScan(t) \/ SetEvict(t)
          \/ DeleteCheck(t) \/ DeleteDel(t)
    \/ Tick

\* several threads on one in-memory cache
SpecThreads == InitThreads /\ [][NextThreads]_vars

(***************************************************************************)
(* MultiHopReasoner.should_use_multihop (multi_hop.py).                    *)
(***************************************************************************)
\* a pattern "a.*b.*c" is the sequence of its literal parts
complex_patterns == <<
    <<"what if", "fail">>,
    <<"after", "then", "how">>,
    <<"but", "still", "problem">>,
    <<"tried", "but", "not work">>,
    <<"followed", "step", "error">>,
    <<"installed", "but", "can't">>,
    <<"updated", "now", "issue">> >>

\* no newline in s[from..to]: "." does not match a newline
NoNewline(s, from, to) == \A i \in from..to : CharAt(s, i) # "\n"

\* the parts occur in s in this order, from position from on, each after the
\* end of the one before and with no newline in between
RECURSIVE MatchParts(_, _, _, _)
MatchParts(parts, s, from, first) ==
    IF Len(parts) = 0 THEN TRUE
    ELSE \E i \in from..(Len(s) - Len(parts[1]) + 1) :
            /\ SubSeq(s, i, i + Len(parts[1]) - 1) = parts[1]
            /\ (first \/ NoNewline(s, from, i - 1))
            /\ MatchParts(Tail(parts), s, i + Len(parts[1]), FALSE)

\* re.search(pattern, s)
re_search(parts, s) == MatchParts(parts, s, 1, TRUE)

\* the patterns are tried on the lower-cased queries of the model once
PatternTable ==
    [s \in {LowerTable[x] : x \in KnownStrings} |->
        \E p \in 1..Len(complex_patterns) : re_search(complex_patterns[p], s)]

MatchesComplexPattern(query_lower) ==
    IF query_lower \in DOMAIN PatternTable THEN PatternTable[query_lower]
    ELSE \E p \in 1..Len(complex_patterns) :
            re_search(complex_patterns[p], query_lower)

\* the patterns that match each lower-cased query of the model
MatchedTable ==
    [s \in {LowerTable[x] : x \in KnownStrings} |->
        {p \in 1..Len(complex_patterns) : re_search(complex_patterns[p], s)}]

MatchedPatterns(query_lower) ==
    IF query_lower \in DOMAIN MatchedTable THEN MatchedTable[query_lower]
    ELSE {p \in 1..Len(complex_patterns) :
             re_search(complex_patterns[p], query_lower)}

\* the patterns as the regular expressions of the source
PatternStrings ==
    [p \in 1..Len(complex_patterns) |-> str_join(".*", complex_patterns[p])]

\* the words the pipeline looks for in a query
QueryWords == {"error", "update", "install", "printer", "network"}

\* word in query_lower, tabulated for the queries and the words of the model
MentionsTable ==
    [s \in {LowerTable[x] : x \in KnownStrings} |->
        [w \in QueryWords |-> str_contains(s, w)]]

Mentions(query_lower, word) ==
    IF query_lower \in DOMAIN MentionsTable /\ word \in QueryWords
    THEN MentionsTable[query_lower][word]
    ELSE str_contains(query_lower, word)

\* a conversation context: a dict whose keys may be absent
EmptyContext ==
    [previous_confidence |-> None, conversation_depth |-> None,
     recentSessionEntities |-> <<>>, recentTopics |-> <<>>]

\* dict.get(key, default) on an Optional field
GetOr(field, default) == IF field = None THEN default ELSE field[1]

\* the decision with the depth test alone, whatever the query mentions
should_use_multihop_any_depth(query, context) ==
    LET query_lower == str_lower(query)
    IN  \/ MatchesComplexPattern(query_lower)
        \/ GetOr(context.previous_confidence, 100) < 50
        \/ GetOr(context.conversation_depth, 0) > 2

\* MultiHopReasoner.should_use_multihop
should_use_multihop(query, context) ==
    LET query_lower == str_lower(query)
    IN  \/ MatchesComplexPattern(query_lower)
        \/ GetOr(context.previous_confidence, 100) < 50
        \/ (GetOr(context.conversation_depth, 0) > 2
            /\ Mentions(query_lower, "error"))

(***************************************************************************)
(* Canned answers (answer_synthesizer.py, app.py).                         *)
(***************************************************************************)
\* AnswerSynthesizer._generate_fallback_response: keys in dict order
fallback_keys == <<"update", "install", "printer", "network", "error">>

fallback_responses ==
    [update |-> "I don't have specific information about that update. Try 'sudo apt update && sudo apt upgrade' for general updates, or provide more details about what you're trying to update.",
     install |-> "I couldn't find installation instructions for that. Could you specify what software you're trying to install? You can also try 'apt search [software-name]' to find packages.",
     printer |-> "For printer setup issues, first ensure your printer is connected and powered on. Then go to Settings > Printers to add or configure your printer. What specific printer model are you using?",
     network |-> "For network issues, try checking your connection with 'ping google.com'. Could you describe the specific network problem you're experiencing?",
     error |-> "I need more details about the error. Could you share the exact error message or describe what happens when you encounter this issue?",
     default |-> "I couldn't find specific information about that. Could you provide more details or rephrase your question? You can also try the Ubuntu documentation or community forums."]

\* ', '.join(entities[:2])
JoinFirstTwo(entities) == str_join(", ", SubSeq(entities, 1, 2))

_generate_fallback_response(query, context) ==
    LET query_lower == str_lower(query)
        hits == {i \in 1..Len(fallback_keys) :
                    Mentions(query_lower, fallback_keys[i])}
        fallback == IF hits = {} THEN fallback_responses["default"]
                    ELSE fallback_responses[
                             fallback_keys[CHOOSE i \in hits :
                                              \A j \in hits : i <= j]]
    IN  IF context # None /\ Len(context[1].recentSessionEntities) > 0
        THEN fallback \o "\n\nBased on our conversation about "
                      \o JoinFirstTwo(context[1].recentSessionEntities)
                      \o ", you might also want to ask about related configuration or troubleshooting steps."
        ELSE fallback

\* fallback_response of app.py: the canned answer of the intent, else one of
\* the generic answers (random.choice)
generic_responses == <<
    "I'm not sure how to help with that specific Ubuntu issue. Could you provide more details?",
    "I don't have enough information about that topic. Could you rephrase your question?",
    "That's a good question about Ubuntu. Let me check the documentation and get back to you.",
    "I'm still learning about Ubuntu support. Could you ask in a different way?",
    "I don't have the answer to that question yet. Have you tried searching the Ubuntu forums?" >>

intent_responses ==
    [MakeUpdate |-> "It seems you're trying to update or install software. The basic command for updating Ubuntu is 'sudo apt update && sudo apt upgrade'. Could you tell me more about what you're trying to update?",
     SetupPrinter |-> "For printer setup issues, first make sure your printer is connected and powered on. Then go to Settings > Printers to add or configure your printer.",
     ShutdownComputer |-> "To shut down your Ubuntu computer, you can use the command 'sudo shutdown now' or click on the power icon in the top-right menu and select 'Power Off'.",
     SoftwareRecommendation |-> "I can help recommend software for Ubuntu. Could you tell me more about what type of application you're looking for?"]

\* the confidence of a fallback response (0.3)
FallbackConfidence == 30

fallback_response(query, intent, choice) ==
    Response(IF intent # None /\ intent[1] \in DOMAIN intent_responses
             THEN intent_responses[intent[1]]
             ELSE generic_responses[choice],
             <<>>, FallbackConfidence, None)

\* the outcomes of random.choice that make a difference: none with a known
\* intent, else the first and the last of the generic responses
Choices(intent) ==
    IF intent # None /\ intent[1] \in DOMAIN intent_responses
    THEN {1} ELSE {1, Len(generic_responses)}

(***************************************************************************)
(* The /retrieve pipeline (app.py).  What the components outside the code  *)
(* return (search results, transformations, rewritten queries, the result  *)
(* of the reasoning loop, random.choice) is chosen by the environment, so  *)
(* retrieve is the set of outcomes a request can have.                     *)
(***************************************************************************)
\* initialize_services: all the way through, or an exception at some step,
\* after which the except branch creates the search engine, the rewriter and
\* (when there is none) a disabled cache; has_redis is REDIS_URL being set
Startup(comp, has_redis, is_disabled) ==
    [components |-> comp, has_redis |-> has_redis, disabled |-> is_disabled]

StartupOutcomes ==
    {Startup(NoComponents, FALSE, FALSE),
     Startup(Components(TRUE, TRUE, FALSE, FALSE, FALSE, FALSE, "empty"),
             FALSE, TRUE),
     Startup(Components(TRUE, TRUE, TRUE, FALSE, FALSE, FALSE, "loaded"),
             FALSE, FALSE),
     Startup(Components(TRUE, TRUE, TRUE, TRUE, FALSE, FALSE, "loaded"),
             FALSE, FALSE)}
    \cup {Startup(Components(TRUE, TRUE, TRUE, TRUE, TRUE, TRUE, corpus),
                  has_redis, FALSE) :
             corpus \in {"empty", "loaded"}, has_redis \in BOOLEAN}
    \cup {Startup(Components(TRUE, TRUE, TRUE, TRUE, TRUE, TRUE, "loaded"),
                  FALSE, TRUE)}

CtxLowConfidence ==
    [previous_confidence |-> Some(30), conversation_depth |-> None,
     recentSessionEntities |-> <<>>, recentTopics |-> <<>>]

CtxDeep ==
    [previous_confidence |-> None, conversation_depth |-> Some(3),
     recentSessionEntities |-> <<"apt", "firefox", "cups">>,
     recentTopics |-> <<>>]

\* RAGRequest
RAGRequest(query, intent, top_k, context) ==
    [query |-> query, intent |-> intent, top_k |-> top_k, context |-> context]

Requests == <<
    RAGRequest("shutdown", Some("ShutdownComputer"), 3, None),
    RAGRequest("What is apt?", None, 3, None),
    RAGRequest("I tried updating but the error still shows", None, 3, None),
    RAGRequest("I tried updating but it does not work", Some("MakeUpdate"), 3,
               None),
    RAGRequest("What is apt?", None, 3, Some(CtxLowConfidence)),
    RAGRequest("I tried updating but the error still shows", None, 1,
               Some(CtxDeep)),
    RAGRequest("shutdown", Some("ShutdownComputer"), 1, Some(CtxDeep)),
    RAGRequest("What is apt?", None, 3, Some(CtxDeep)) >>

\* request.context or {}
ContextOrEmpty(context) == IF context = None THEN EmptyContext ELSE context[1]

\* the truth value of request.context
ContextGiven(context) == context # None /\ context[1] # EmptyContext

\* a chunk the search engine returns
Chunk(id, score, response, parent_id) ==
    [id |-> id, content |-> "content of " \o id, similarity_score |-> score,
     source |-> "ubuntu-docs", response |-> response, parent_id |-> parent_id]

\* the parent documents (the global documents)
documents == <<[id |-> "p1", response |-> Some("answer of p1")]>>

Searched(results) == [raised |-> FALSE, results |-> results]
SearchRaises == [raised |-> TRUE, results |-> <<>>]

NoResults == Searched(<<>>)
HighResults == Searched(<<Chunk("doc1", 90, Some("answer of doc1"), None)>>)
LowResults == Searched(<<Chunk("doc2", 40, None, None),
                         Chunk("doc1", 30, Some("answer of doc1"), None)>>)
MidResults == Searched(<<Chunk("doc3", 60, None, Some("p1"))>>)

\* what the searches of one request return, by position of the query searched
NothingFound == <<NoResults, NoResults, NoResults>>
FoundAtOnce == <<HighResults, LowResults, NoResults>>

SearchPlans(corpus) ==
    IF corpus = "empty" THEN {NothingFound}
    ELSE {NothingFound, FoundAtOnce,
          <<LowResults, HighResults, MidResults>>,
          <<MidResults, SearchRaises, LowResults>>,
          <<SearchRaises, SearchRaises, SearchRaises>>}

\* the searches of one request, and whether the synthesizer raises in it
Environments(corpus) ==
    {[plan |-> plan, synth_raises |-> FALSE] : plan \in SearchPlans(corpus)}
    \cup {[plan |-> plan, synth_raises |-> TRUE] :
             plan \in SearchPlans(corpus) \cap {NothingFound, FoundAtOnce}}

\* result["search_query"] = query
Tagged(results, query) ==
    [i \in 1..Len(results) |->
        [id |-> results[i].id, content |-> results[i].content,
         similarity_score |-> results[i].similarity_score,
         source |-> results[i].source, response |-> results[i].response,
         parent_id |-> results[i].parent_id, search_query |-> Some(query)]]

Untagged(results) ==
    [i \in 1..Len(results) |->
        [id |-> results[i].id, content |-> results[i].content,
         similarity_score |-> results[i].similarity_score,
         source |-> results[i].source, response |-> results[i].response,
         parent_id |-> results[i].parent_id, search_query |-> None]]

\* a parallel search with one try around the loop: the first failed task
\* ends it, and the results of the later tasks are lost
RECURSIVE ParallelSearch_one_try(_, _, _)
ParallelSearch_one_try(queries, plan, i) ==
    IF i > Len(queries) \/ plan[i].raised THEN <<>>
    ELSE Tagged(plan[i].results, queries[i])
         \o ParallelSearch_one_try(queries, plan, i + 1)

\* the parallel search: every task is awaited, a failed one is skipped
RECURSIVE ParallelSearch(_, _, _)
ParallelSearch(queries, plan, i) ==
    IF i > Len(queries) THEN <<>>
    ELSE (IF plan[i].raised THEN <<>> ELSE Tagged(plan[i].results, queries[i]))
         \o ParallelSearch(queries, plan, i + 1)

\* the sequential search: a failed query is skipped, a good first result
\* (above 0.8) stops the loop
RECURSIVE SequentialSearch(_, _, _)
SequentialSearch(queries, plan, i) ==
    IF i > Len(queries) THEN <<>>
    ELSE IF plan[i].raised THEN SequentialSearch(queries, plan, i + 1)
    ELSE LET results == Tagged(plan[i].results, queries[i])
         IN  IF Len(results) > 0 /\ results[1].similarity_score > 80
             THEN results
             ELSE results \o SequentialSearch(queries, plan, i + 1)

\* the first result of every id, in order
RECURSIVE Unique(_, _)
Unique(results, seen_ids) ==
    IF Len(results) = 0 THEN <<>>
    ELSE IF results[1].id \in seen_ids THEN Unique(Tail(results), seen_ids)
    ELSE <<results[1]>> \o Unique(Tail(results), seen_ids \cup {results[1].id})

\* list.sort(key=similarity_score, reverse=True): stable
RECURSIVE InsertByScore(_, _)
InsertByScore(sorted, r) ==
    IF Len(sorted) = 0 THEN <<r>>
    ELSE IF sorted[1].similarity_score >= r.similarity_score
    THEN <<sorted[1]>> \o InsertByScore(Tail(sorted), r)
    ELSE <<r>> \o sorted

RECURSIVE SortByScore(_)
SortByScore(results) ==
    IF Len(results) = 0 THEN <<>>
    ELSE InsertByScore(SortByScore(SubSeq(results, 1, Len(results) - 1)),
                       results[Len(results)])

\* unique_results[:top_k]
TopK(results, top_k) ==
    SubSeq(results, 1, IF Len(results) < top_k THEN Len(results) ELSE top_k)

\* content[:150] + "..." for a long content
Truncated(content) ==
    IF Len(content) > 150 THEN SubSeq(content, 1, 150) \o "..." ELSE content

\* the sources of a response; the synthesizer path adds search_query
Sources(results, with_query, rewritten_query) ==
    [i \in 1..Len(results) |->
        IF with_query
        THEN [id |-> results[i].id, content |-> Truncated(results[i].content),
              similarity |-> results[i].similarity_score,
              source |-> results[i].source,
              search_query |-> GetOr(results[i].search_query, rewritten_query)]
        ELSE [id |-> results[i].id, content |-> Truncated(results[i].content),
              similarity |-> results[i].similarity_score,
              source |-> results[i].source]]

\* the queries as they are, duplicates kept
UniqueQueries_all(qs, seen) == qs

\* the queries without duplicates, in order
RECURSIVE UniqueQueries(_, _)
UniqueQueries(qs, seen) ==
    IF Len(qs) = 0 THEN <<>>
    ELSE IF qs[1] \in seen THEN UniqueQueries(Tail(qs), seen)
    ELSE <<qs[1]>> \o UniqueQueries(Tail(qs), seen \cup {qs[1]})

\* an optimizer that calls for the parallel search from two queries on
optimize_for_retrieval_from_two(query, transformed) ==
    LET unique_queries == UniqueQueries(<<query>> \o transformed, {})
    IN  [optimized_queries |-> unique_queries,
         search_strategy |-> IF Len(unique_queries) > 1 THEN "parallel"
                             ELSE "sequential"]

\* QueryOptimizer.optimize_for_retrieval, given the transformed queries
optimize_for_retrieval(query, transformed) ==
    LET unique_queries == UniqueQueries(<<query>> \o transformed, {})
    IN  [optimized_queries |-> unique_queries,
         search_strategy |-> IF Len(unique_queries) > 2 THEN "parallel"
                             ELSE "sequential"]

\* what get_best_transformations can return for a query
Transformations(query) ==
    {<<>>, <<query, query \o " ubuntu">>,
     <<query \o " ubuntu", "how to " \o query>>}

\* what the rewriters can make of a query (expansion terms are sampled)
Rewrites(query) == {query, query \o " linux"}

\* MultiHopReasoner._create_failure_response
_create_failure_response(query, reason) ==
    [answer |-> "I apologize, but I couldn't fully process your complex question: "
                \o reason \o ". Could you try breaking it down into simpler parts?",
     evidence |-> <<>>, confidence |-> 10, queries_used |-> <<query>>,
     hops_performed |-> 0]

\* MultiHopReasoner.reason: a failure response, or the result of the hops
ReasonResults(query, corpus) ==
    {_create_failure_response(query, "No initial results found")}
    \cup (IF corpus = "empty" THEN {}
          ELSE {_create_failure_response(query, "Reasoning error: search failed"),
                [answer |-> "multi-hop answer from doc1 and doc2",
                 evidence |-> <<Chunk("doc1", 90, None, None),
                                Chunk("doc2", 40, None, None)>>,
                 confidence |-> 71,
                 queries_used |-> <<query, query \o " troubleshooting">>,
                 hops_performed |-> 2]})

Min(a, b) == IF a < b THEN a ELSE b
Max(a, b) == IF a > b THEN a ELSE b

\* seq[:n]
FirstN(xs, n) == SubSeq(xs, 1, Min(n, Len(xs)))

\* followup_patterns, in the order of the dict
followup_patterns == <<
    [pattern |-> "update", suggestions |-> <<
        "Do you want to schedule automatic updates?",
        "Would you like to know how to check for package dependencies?",
        "Need help with fixing broken packages after update?">>],
    [pattern |-> "install", suggestions |-> <<
        "Do you need help verifying the installation?",
        "Would you like to know how to uninstall if needed?",
        "Need assistance with package dependencies?">>],
    [pattern |-> "printer", suggestions |-> <<
        "Is your printer detected in system settings?",
        "Do you need help with printer driver installation?",
        "Would you like to print a test page?">>],
    [pattern |-> "network", suggestions |-> <<
        "Do you need help with WiFi password issues?",
        "Would you like to check network adapter settings?",
        "Need assistance with firewall configuration?">>],
    [pattern |-> "error", suggestions |-> <<
        "Would you like help interpreting error logs?",
        "Do you need assistance with debugging steps?",
        "Should we check system resource usage?">>],
    [pattern |-> "permission", suggestions |-> <<
        "Do you need help with sudo configuration?",
        "Would you like to learn about file ownership?",
        "Need assistance with user group management?">>] >>

\* a chunk as the synthesizer reads it: response, content and text, each
\* one absent (None) or a string
SynthChunk(response, content, text) ==
    [response |-> response, content |-> content, text |-> text]

\* a context as the synthesizer reads it; an absent key is None
SynthContext(recentSessionEntities, mentionedEntities, conversationDepth) ==
    [recentSessionEntities |-> recentSessionEntities,
     mentionedEntities |-> mentionedEntities,
     conversationDepth |-> conversationDepth]

\* the truth value of an Optional string or list
NonEmpty(field) == field # None /\ Len(field[1]) > 0

\* str.rfind(c): the 0-based index of the last c in s, -1 when there is none
LastIndexOf(s, c) ==
    LET at == {i \in 1..Len(s) : CharAt(s, i) = c}
    IN  IF at = {} THEN 0 - 1
        ELSE (CHOOSE i \in at : \A j \in at : j <= i) - 1

\* AnswerSynthesizer._extract_content
_extract_content(chunk) ==
    LET content == IF NonEmpty(chunk.response) THEN chunk.response[1]
                   ELSE IF NonEmpty(chunk.content) THEN chunk.content[1]
                   ELSE GetOr(chunk.text, "")
        truncated == SubSeq(content, 1, 500)
        last_period == LastIndexOf(truncated, ".")
    IN  StripEnds(IF Len(content) > 500
                  THEN IF last_period > 300
                       THEN SubSeq(truncated, 1, last_period + 1)
                       ELSE truncated \o "..."
                  ELSE content)

\* any(name in entity_lower for name in names)
MentionsAny(entity_lower, names) ==
    \E k \in 1..Len(names) : str_contains(entity_lower, names[k])

\* the loop of _generate_context_followups over the entities
RECURSIVE EntityFollowups(_)
EntityFollowups(entities) ==
    IF Len(entities) = 0 THEN <<>>
    ELSE LET entity == entities[1]
             entity_lower == LowerAll(entity)
         IN  (IF str_contains(entity_lower, "printer")
              THEN <<"Need help troubleshooting your printer?">>
              ELSE IF MentionsAny(entity_lower,
                          <<"firefox", "chrome", "vlc", "libreoffice">>)
              THEN <<"Do you need help configuring " \o entity \o "?">>
              ELSE IF MentionsAny(entity_lower, <<"apache", "mysql", "nginx">>)
              THEN <<"Would you like help with " \o entity \o " configuration?">>
              ELSE <<>>)
             \o EntityFollowups(Tail(entities))

\* AnswerSynthesizer._generate_context_followups
_generate_context_followups(context, query) ==
    LET entities == IF NonEmpty(context.recentSessionEntities)
                    THEN context.recentSessionEntities[1]
                    ELSE GetOr(context.mentionedEntities, <<>>)
        depth == GetOr(context.conversationDepth, 0)
    IN  FirstN(EntityFollowups(entities)
               \o (IF depth > 3 THEN <<"Did this solve your problem?">>
                   ELSE <<>>),
               2)

\* AnswerSynthesizer._generate_content_followups
_generate_content_followups(chunk, query) ==
    LET content == LowerAll(_extract_content(chunk))
    IN  FirstN((IF str_contains(content, "command")
                   \/ str_contains(content, "terminal")
                THEN <<"Do you need help running terminal commands?">>
                ELSE <<>>)
               \o (IF str_contains(content, "configuration")
                      \/ str_contains(content, "config")
                   THEN <<"Would you like help with configuration files?">>
                   ELSE <<>>)
               \o (IF str_contains(content, "package")
                      /\ str_contains(content, "install")
                   THEN <<"Need help with package dependencies?">>
                   ELSE <<>>),
               1)

\* the first two suggestions of the first pattern that the query holds
PatternFollowups(query_lower) ==
    LET matching == {k \in 1..Len(followup_patterns) :
                        str_contains(query_lower, followup_patterns[k].pattern)}
    IN  IF matching = {} THEN <<>>
        ELSE FirstN(followup_patterns[CHOOSE k \in matching :
                                         \A j \in matching : k <= j].suggestions,
                    2)

\* the truth value of the context: a dict with a key
ContextHasKey(context) ==
    /\ context # None
    /\ \E key \in DOMAIN context[1] : context[1][key] # None

\* the follow-ups with the content-based ones put first
_generate_followups_content_first(query, context, chunks) ==
    LET followups ==
            (IF Len(chunks) > 0
             THEN _generate_content_followups(chunks[1], query) ELSE <<>>)
            \o PatternFollowups(LowerAll(query))
            \o (IF ContextHasKey(context)
                THEN _generate_context_followups(context[1], query) ELSE <<>>)
    IN  FirstN(UniqueQueries(followups, {}), 3)

\* AnswerSynthesizer._generate_followups; list(dict.fromkeys(followups))
\* keeps the first of equal strings, in order
_generate_followups(query, context, chunks) ==
    LET followups ==
            PatternFollowups(LowerAll(query))
            \o (IF ContextHasKey(context)
                THEN _generate_context_followups(context[1], query) ELSE <<>>)
            \o (IF Len(chunks) > 0
                THEN _generate_content_followups(chunks[1], query) ELSE <<>>)
    IN  FirstN(UniqueQueries(followups, {}), 3)

\* the chunk of the search engine as the synthesizer reads it
SynthChunkOf(chunk) == SynthChunk(chunk.response, Some(chunk.content), None)

\* the context of the request as the synthesizer reads it: the service
\* contexts hold neither mentionedEntities nor conversationDepth
SynthContextOf(context) ==
    IF ContextGiven(context)
    THEN Some(SynthContext(Some(context[1].recentSessionEntities), None, None))
    ELSE None

\* _generate_followups(user_query, context, retrieved_chunks) on the
\* queries, the contexts and the top chunks of the service; of the chunks
\* it reads the first one only
FollowupsTable ==
    [q \in {Requests[n].query : n \in 1..Len(Requests)} |->
        [c \in {Requests[n].context : n \in 1..Len(Requests)} |->
            [ch \in UNION {{SynthChunkOf(p.results[i]) :
                               i \in 1..Len(p.results)} :
                              p \in {HighResults, LowResults, MidResults}} |->
                _generate_followups(q, SynthContextOf(c), <<ch>>)]]]

\* AnswerSynthesizer.synthesize_answer; the text made from the chunks is
\* abstracted to the top chunk it is formatted from, followed by the
\* follow-up suggestions
synthesize_answer(user_query, retrieved_chunks, context) ==
    IF Len(retrieved_chunks) = 0
    THEN _generate_fallback_response(user_query, context)
    ELSE LET main_response == "Synthesized from " \o retrieved_chunks[1].id
                              \o ": " \o retrieved_chunks[1].content
             followups == FollowupsTable[user_query][context][
                              SynthChunkOf(retrieved_chunks[1])]
         IN  IF Len(followups) > 0
             THEN main_response \o "\n\nSuggested follow-up: "
                                \o str_join(" / ", followups)
             ELSE main_response

\* search_engine.search(query, top_k, 0.7): at most top_k results
search(planned, top_k) ==
    [raised |-> planned.raised, results |-> TopK(planned.results, top_k)]

\* what retrieve gives its caller
Returned(response) == [raised |-> FALSE, response |-> Some(response)]
Propagated == [raised |-> TRUE, response |-> None]

\* how a request went: the branch taken, the response built before the cache
\* store, the result of the reasoner, and the components that raised
Trace(path, computed, reasoned, faults) ==
    [path |-> path, computed |-> computed, reasoned |-> reasoned,
     faults |-> faults, excepted |-> FALSE, searched |-> None]

\* the tasks of a parallel search: the queries and what the search of each
\* one gave
WithSearches(outcomes, parallel, queries, searched) ==
    IF ~parallel THEN outcomes
    ELSE {[o EXCEPT !.trace.searched =
              Some([queries |-> queries,
                    searched |-> SubSeq(searched, 1, Len(queries))])] :
             o \in outcomes}

Outcome(returned, cache, srv, trace) ==
    [returned |-> returned, cache |-> cache, redis |-> srv, trace |-> trace]

\* the fallback answers a request can get
Fallbacks(request) ==
    {fallback_response(request.query, request.intent, c) :
        c \in Choices(request.intent)}

\* a handler that lets the exception through
HandleException_propagate(request, cache, srv, trace) ==
    {Outcome(Propagated, cache, srv, [trace EXCEPT !.excepted = TRUE])}

\* except Exception of retrieve: the fallback response
HandleException(request, cache, srv, trace) ==
    {Outcome(Returned(fb), cache, srv, [trace EXCEPT !.excepted = TRUE]) :
        fb \in Fallbacks(request)}

\* response_cache.set(**call): data is a required parameter, so a call
\* without it raises TypeError before the body of set runs
CallSet(self, srv, t, call) ==
    IF "data" \notin DOMAIN call
    THEN [type_error |-> TRUE, cache |-> self, redis |-> srv, raised |-> FALSE]
    ELSE LET r == set(self, srv, t, call.query, call.data, call.intent, None,
                      <<Kw("top_k", Some(call.top_k))>>)
         IN  [type_error |-> FALSE, cache |-> r.cache, redis |-> r.redis,
              raised |-> r.raised]

\* rewritten_query if rewritten_query != original_query else None
RewrittenOrNone(rewritten_query, original_query) ==
    IF rewritten_query # original_query THEN Some(rewritten_query) ELSE None

\* an end of retrieve that stores the response whatever its confidence
StoreAndReturn_any_confidence(self, srv, t, request, response, path, faults) ==
    IF response.confidence >= 0
    THEN LET c == CallSet(self, srv, t,
                     [query |-> request.query, intent |-> request.intent,
                      data |-> response, top_k |-> request.top_k])
             trace == Trace(path, Some(response), None,
                            faults \cup (IF c.raised THEN {"cache_set"} ELSE {}))
         IN  IF c.type_error
             THEN HandleException(request, self, srv, trace)
             ELSE {Outcome(Returned(response), c.cache, c.redis, trace)}
    ELSE {Outcome(Returned(response), self, srv,
                  Trace(path, Some(response), None, faults))}

\* the end of retrieve: the store of a good response, and the return
StoreAndReturn(self, srv, t, request, response, path, faults) ==
    IF response.confidence > 50
    THEN LET c == CallSet(self, srv, t,
                     [query |-> request.query, intent |-> request.intent,
                      data |-> response, top_k |-> request.top_k])
             trace == Trace(path, Some(response), None,
                            faults \cup (IF c.raised THEN {"cache_set"} ELSE {}))
         IN  IF c.type_error
             THEN HandleException(request, self, srv, trace)
             ELSE {Outcome(Returned(response), c.cache, c.redis, trace)}
    ELSE {Outcome(Returned(response), self, srv,
                  Trace(path, Some(response), None, faults))}

\* step 5 of retrieve: the answer from the results
Respond(comp, self, srv, t, request, rewritten_query, results, synth_raises, faults) ==
    LET rewritten == RewrittenOrNone(rewritten_query, request.query)
    IN
    IF Len(results) = 0
    THEN IF comp.answer_synthesizer
         THEN IF synth_raises
              THEN HandleException(request, self, srv,
                       Trace("no_results", None, None,
                             faults \cup {"synthesizer"}))
              ELSE {Outcome(Returned(Response(
                        synthesize_answer(request.query, <<>>, request.context),
                        <<>>, 30, rewritten)),
                        self, srv, Trace("no_results", None, None, faults))}
         ELSE {Outcome(Returned(fb), self, srv,
                       Trace("no_results_fallback", None, None, faults)) :
                  fb \in Fallbacks(request)}
    ELSE IF comp.answer_synthesizer
    THEN IF synth_raises
         THEN HandleException(request, self, srv,
                  Trace("synthesized", None, None, faults \cup {"synthesizer"}))
         ELSE StoreAndReturn(self, srv, t, request,
                  Response(synthesize_answer(request.query, results,
                                             request.context),
                           Sources(results, TRUE, rewritten_query),
                           results[1].similarity_score, rewritten),
                  "synthesized", faults)
    ELSE LET best_result == results[1]
             parents == {i \in 1..Len(documents) :
                            Some(documents[i].id) = best_result.parent_id}
             response_text ==
                 IF best_result.response # None THEN best_result.response
                 ELSE IF parents # {}
                 THEN documents[CHOOSE i \in parents :
                                   \A j \in parents : i <= j].response
                 ELSE None
         IN  IF response_text = None
             THEN {Outcome(Returned(fb), self, srv,
                           Trace("legacy_fallback", None, None, faults)) :
                      fb \in Fallbacks(request)}
             ELSE StoreAndReturn(self, srv, t, request,
                      Response(response_text[1],
                               Sources(results, FALSE, rewritten_query),
                               best_result.similarity_score, rewritten),
                      "legacy", faults)

\* the test of retrieve for the parallel search (app.py 428)
RunsConcurrently(optimization_result) ==
    /\ optimization_result.search_strategy = "parallel"
    /\ Len(optimization_result.optimized_queries) > 1

\* the results cut to top_k without the removal of duplicates and the sort
Ranked_as_found(all_results, top_k) == TopK(all_results, top_k)

\* unique_results sorted, cut to top_k
Ranked(all_results, top_k) == TopK(SortByScore(Unique(all_results, {})), top_k)

\* steps 2 to 5 of retrieve with the optimizer
OptimizedHop(comp, self, srv, t, request, faults) ==
    HandleException(request, self, srv,
        Trace("optimizer", None, None, faults \cup {"optimizer"}))
    \cup UNION {
        LET optimization_result == optimize_for_retrieval(request.query, tr)
            queries == optimization_result.optimized_queries
            searched == [i \in 1..Len(env.plan) |->
                            search(env.plan[i], request.top_k)]
            parallel == RunsConcurrently(optimization_result)
            all_results ==
                IF parallel
                THEN ParallelSearch(queries, searched, 1)
                ELSE SequentialSearch(queries, searched, 1)
            failed == IF \E i \in 1..Len(queries) : searched[i].raised
                      THEN {"search"} ELSE {}
        IN  WithSearches(
                Respond(comp, self, srv, t, request, request.query,
                        Ranked(all_results, request.top_k), env.synth_raises,
                        faults \cup failed),
                parallel, queries, searched) :
        tr \in Transformations(request.query),
        env \in Environments(comp.corpus) }

\* steps 3 to 5 of retrieve without the optimizer: one rewritten query, one
\* search outside any inner try
RewrittenHop(comp, self, srv, t, request, faults) ==
    UNION {
        LET found == search(env.plan[1], request.top_k)
        IN  IF found.raised
            THEN HandleException(request, self, srv,
                     Trace("search", None, None, faults \cup {"search"}))
            ELSE Respond(comp, self, srv, t, request, rewritten_query,
                         Ranked(Untagged(found.results), request.top_k),
                         env.synth_raises, faults) :
        rewritten_query \in Rewrites(request.query),
        env \in Environments(comp.corpus) }

\* the multi-hop branch of retrieve
MultiHop(comp, self, srv, t, request, faults) ==
    UNION {
        LET response ==
                Response(multihop_result.answer,
                    [i \in 1..Len(multihop_result.evidence) |->
                        [id |-> multihop_result.evidence[i].id,
                         content |-> Truncated(multihop_result.evidence[i].content),
                         similarity |-> multihop_result.evidence[i].similarity_score,
                         source |-> multihop_result.evidence[i].source]],
                    multihop_result.confidence,
                    Some("Multi-hop queries: "
                         \o str_join(", ", multihop_result.queries_used)))
            c == CallSet(self, srv, t,
                     [query |-> request.query, intent |-> request.intent,
                      response |-> response, top_k |-> request.top_k])
            trace == Trace("multi_hop", Some(response), Some(multihop_result),
                         faults \cup (IF c.type_error THEN {"store_call"} ELSE {})
                                \cup (IF c.raised THEN {"cache_set"} ELSE {}))
        IN  IF c.type_error
            THEN HandleException(request, self, srv, trace)
            ELSE {Outcome(Returned(response), c.cache, c.redis, trace)} :
        multihop_result \in ReasonResults(request.query, comp.corpus) }

\* the kwargs of the cache lookup
CacheKeyExtras(request) == <<Kw("top_k", Some(request.top_k))>>

\* retrieve: the outcomes of a request
retrieve(comp, self, srv, t, request) ==
    IF ~comp.search_engine \/ ~comp.query_rewriter
    THEN {Outcome(Returned(fb), self, srv,
                  Trace("uninitialized", None, None, {})) :
             fb \in Fallbacks(request)}
    ELSE
    LET g == get(self, srv, t, request.query, request.intent,
                 CacheKeyExtras(request))
        faults == IF g.raised THEN {"cache_get"} ELSE {}
    IN  IF g.ret # Miss
        THEN {Outcome(Returned(g.ret.data), g.cache, srv,
                      Trace("cache_hit", None, None, faults))}
        ELSE IF comp.multi_hop_reasoner
                /\ should_use_multihop(request.query,
                                       ContextOrEmpty(request.context))
        THEN MultiHop(comp, g.cache, srv, t, request, faults)
        ELSE IF comp.query_optimizer
        THEN OptimizedHop(comp, g.cache, srv, t, request, faults)
        ELSE RewrittenHop(comp, g.cache, srv, t, request, faults)

\* multi_hop_analysis: the decision and its indicators, or 503
multi_hop_analysis(comp, request) ==
    IF ~comp.multi_hop_reasoner THEN [status |-> 503]
    ELSE
    LET context == ContextOrEmpty(request.context)
        query_lower == str_lower(request.query)
        matched == MatchedPatterns(query_lower)
    IN  [status |-> 200, query |-> request.query,
         should_use_multihop |-> should_use_multihop(request.query, context),
         pattern_matches |-> {PatternStrings[p] : p \in matched},
         low_previous_confidence |->
             GetOr(context.previous_confidence, 100) < 50,
         deep_conversation_with_error |->
             GetOr(context.conversation_depth, 0) > 2
             /\ Mentions(query_lower, "error")]

(***************************************************************************)
(* Requests made on the service.                                           *)
(***************************************************************************)
MaxRequests == MemoryLimit + 1

Retrieve(n) ==
    /\ calls < MaxRequests
    /\ \E o \in retrieve(components, response_cache, redis, now, Requests[n]) :
          /\ response_cache' = o.cache
          /\ redis' = o.redis
          /\ last' = [op |-> "retrieve", request |-> Requests[n],
                      returned |-> o.returned, trace |-> o.trace]
    /\ calls' = calls + 1
    /\ UNCHANGED <<now, lastSet, written, components, threads, reasoning_state>>

MultiHopAnalysis(n) ==
    /\ calls < MaxRequests
    /\ last' = [op |-> "analysis", request |-> Requests[n],
                result |-> multi_hop_analysis(components, Requests[n])]
    /\ calls' = calls + 1
    /\ UNCHANGED <<response_cache, redis, now, lastSet, written, components,
                   threads, reasoning_state>>

\* the service after startup: the components initialize_services left, and
\* the cache it built (disabled when no cache could be built)
InitService ==
    /\ \E st \in StartupOutcomes :
          /\ components = st.components
          /\ response_cache = NewCache(st.has_redis, st.disabled)
    /\ \E up \in BOOLEAN : redis = [up |-> up, data |-> NoRedisData]
    /\ (response_cache.redis_client = None => redis.up)
    /\ now = 0
    /\ last = NoCall
    /\ lastSet = NoSet
    /\ written = {}
    /\ calls = 0
    /\ threads = <<>>
    /\ reasoning_state = NoReasoning

NextService ==
    \/ \E n \in 1..Len(Requests) : Retrieve(n)
    \/ \E n \in 1..Len(Requests) : MultiHopAnalysis(n)
    \/ RedisDown
    \/ RedisUp

SpecService == InitService /\ [][NextService]_vars

(***************************************************************************)
(* The parallel search of retrieve (app.py 428-444), one step per task     *)
(* that ends and per await.  Every query gets a task that runs             *)
(* search_engine.search in a worker thread (asyncio.to_thread); the        *)
(* coroutine awaits the tasks in the order of the queries.  threads holds  *)
(* the tasks, last holds the coroutine.                                    *)
(***************************************************************************)
\* a search that never returns (the worker thread blocks for ever)
NeverReturns == [raised |-> FALSE, results |-> <<>>, returns |-> FALSE]

\* what the search of one task can do
TaskPlans ==
    {[raised |-> p.raised, results |-> p.results, returns |-> TRUE] :
        p \in {NoResults, HighResults, LowResults, MidResults, SearchRaises}}
    \cup {NeverReturns}

\* asyncio.create_task(asyncio.to_thread(search_engine.search, query, ...))
SearchTask(query, planned) == [query |-> query, planned |-> planned, done |-> FALSE]

\* the requests whose optimized queries are searched in parallel
ParallelRequests == {Requests[2], Requests[5]}

\* the coroutine of retrieve around step 4
Searching(pc, request, queries, i, all_results, failed, response) ==
    [op |-> "parallel_search", pc |-> pc, request |-> request,
     queries |-> queries, i |-> i, all_results |-> all_results,
     failed |-> failed, response |-> response]

\* lines 430-435: one task per query, all created before the first await
CreateTasks(plan) ==
    /\ last.op = "parallel_search" /\ last.pc = "create"
    /\ Len(plan) = Len(last.queries)
    /\ threads' = [k \in 1..Len(plan) |-> SearchTask(last.queries[k], plan[k])]
    /\ last' = [last EXCEPT !.pc = "await"]
    /\ UNCHANGED <<response_cache, redis, now, lastSet, written, calls,
                   components, reasoning_state>>

\* the search of task k returns or raises in its worker thread
TaskEnds(k) ==
    /\ last.op = "parallel_search"
    /\ k \in 1..Len(threads)
    /\ ~threads[k].done
    /\ threads[k].planned.returns
    /\ threads' = [threads EXCEPT ![k].done = TRUE]
    /\ UNCHANGED <<response_cache, redis, now, last, lastSet, written, calls,
                   components, reasoning_state>>

\* lines 437-444: results = await task, for the tasks in order; the await
\* has no timeout and resumes only when the task is done
AwaitTask ==
    /\ last.op = "parallel_search" /\ last.pc = "await"
    /\ last.i <= Len(threads)
    /\ threads[last.i].done
    /\ LET task == threads[last.i]
       IN  last' = IF task.planned.raised
                   THEN [last EXCEPT !.i = last.i + 1, !.failed = {"search"}]
                   ELSE [last EXCEPT !.i = last.i + 1,
                            !.all_results = last.all_results
                                \o Tagged(TopK(task.planned.results,
                                               last.request.top_k),
                                          task.query)]
    /\ UNCHANGED <<response_cache, redis, now, lastSet, written, calls,
                   components, threads, reasoning_state>>

\* lines 463-580 once every task has been awaited: the response
RespondSearched ==
    /\ last.op = "parallel_search" /\ last.pc = "await"
    /\ last.i > Len(threads)
    /\ \E synth_raises \in BOOLEAN :
       \E o \in Respond(components, response_cache, redis, now, last.request,
                        last.request.query,
                        Ranked(last.all_results, last.request.top_k),
                        synth_raises, last.failed) :
          /\ response_cache' = o.cache
          /\ redis' = o.redis
          /\ last' = [last EXCEPT !.pc = "responded",
                                  !.response = o.returned.response]
    /\ UNCHANGED <<now, lastSet, written, calls, components, threads,
                   reasoning_state>>

\* a started service with every component, at a request that misses the
\* cache and is not sent to the reasoner, after the optimizer gave more than
\* two queries
InitParallel ==
    /\ components = Components(TRUE, TRUE, TRUE, TRUE, TRUE, TRUE, "loaded")
    /\ response_cache = NewCache(FALSE, FALSE)
    /\ redis = [up |-> TRUE, data |-> NoRedisData]
    /\ now = 0
    /\ lastSet = NoSet
    /\ written = {}
    /\ calls = 0
    /\ threads = <<>>
    /\ reasoning_state = NoReasoning
    /\ \E request \in ParallelRequests :
       \E tr \in Transformations(request.query) :
          LET optimization_result == optimize_for_retrieval(request.query, tr)
          IN  /\ optimization_result.search_strategy = "parallel"
              /\ Len(optimization_result.optimized_queries) > 1
              /\ last = Searching("create", request,
                                  optimization_result.optimized_queries, 1,
                                  <<>>, {}, None)

NextParallel ==
    \/ \E plan \in [1..3 -> TaskPlans] : CreateTasks(plan)
    \/ \E k \in 1..3 : TaskEnds(k)
    \/ AwaitTask
    \/ RespondSearched

SpecParallel == InitParallel /\ [][NextParallel]_vars

\* the event loop resumes a coroutine whose awaited task is done, and a
\* search that returns does so in its worker thread; nothing makes a search
\* return that does not
SpecParallelFair ==
    /\ SpecParallel
    /\ WF_vars(AwaitTask)
    /\ WF_vars(RespondSearched)
    /\ \A k \in 1..3 : WF_vars(TaskEnds(k))

(***************************************************************************)
(* The cancellation of a request in its parallel search.  The coroutine of *)
(* retrieve is suspended at 'await task' (app.py 439) and nowhere else in  *)
(* step 4; task.cancel() on the request raises CancelledError there, which *)
(* is no Exception: neither the except of 443 nor the one of 580 catches   *)
(* it.  The task awaited is cancelled with the request; the other tasks    *)
(* are referenced by search_tasks alone and nothing cancels them.          *)
(***************************************************************************)
\* the request is cancelled while it awaits task i.  The search of that task
\* goes on when its worker thread has started it, and is dropped when it
\* was still queued in the executor
Cancel(started) ==
    /\ last.op = "parallel_search" /\ last.pc = "await"
    /\ last.i <= Len(threads)
    /\ ~threads[last.i].done
    /\ last' = [last EXCEPT !.pc = "cancelled"]
    /\ threads' = IF started THEN threads
                  ELSE [threads EXCEPT ![last.i].planned.returns = FALSE]
    /\ UNCHANGED <<response_cache, redis, now, lastSet, written, calls,
                   components, reasoning_state>>

NextCancel ==
    \/ \E plan \in [1..3 -> TaskPlans] : CreateTasks(plan)
    \/ \E k \in 1..3 : TaskEnds(k)
    \/ AwaitTask
    \/ RespondSearched
    \/ \E started \in BOOLEAN : Cancel(started)

SpecCancel == InitParallel /\ [][NextCancel]_vars

(***************************************************************************)
(* The sequential search of retrieve (app.py 445-458), one step per query  *)
(* searched.  last holds the coroutine; searched is the list of what the   *)
(* searches made so far gave.                                              *)
(***************************************************************************)
\* what the search of one query can give
QueryPlans == {NoResults, HighResults, LowResults, MidResults, SearchRaises}

\* the requests that miss the cache and are not sent to the reasoner
SequentialRequests == {Requests[2], Requests[5], Requests[7]}

\* the coroutine of retrieve in the loop of the sequential search
SearchingInTurn(pc, request, queries, i, all_results, failed, searched) ==
    [op |-> "sequential_search", pc |-> pc, request |-> request,
     queries |-> queries, i |-> i, all_results |-> all_results,
     failed |-> failed, searched |-> searched, response |-> None]

\* results and results[0].get("similarity_score", 0) > 0.8
GoodResults(results) == Len(results) > 0 /\ results[1].similarity_score > 80

\* a loop that never stops early
SearchQuery_no_break(planned) ==
    /\ last.op = "sequential_search" /\ last.pc = "search"
    /\ last.i <= Len(last.queries)
    /\ LET found == search(planned, last.request.top_k)
       IN  last' = IF found.raised
                   THEN [last EXCEPT !.i = last.i + 1, !.failed = {"search"},
                                     !.searched = last.searched \o <<found>>]
                   ELSE [last EXCEPT !.i = last.i + 1,
                            !.all_results = last.all_results
                                \o Tagged(found.results, last.queries[last.i]),
                            !.searched = last.searched \o <<found>>]
    /\ UNCHANGED <<response_cache, redis, now, lastSet, written, calls,
                   components, threads, reasoning_state>>

\* lines 447-458: one turn of the loop.  A search that raises is logged and
\* the loop goes on; good results end the loop (break)
SearchQuery(planned) ==
    /\ last.op = "sequential_search" /\ last.pc = "search"
    /\ last.i <= Len(last.queries)
    /\ LET found == search(planned, last.request.top_k)
       IN  last' = IF found.raised
                   THEN [last EXCEPT !.i = last.i + 1, !.failed = {"search"},
                                     !.searched = last.searched \o <<found>>]
                   ELSE [last EXCEPT
                            !.i = last.i + 1,
                            !.pc = IF GoodResults(found.results) THEN "break"
                                   ELSE "search",
                            !.all_results = last.all_results
                                \o Tagged(found.results, last.queries[last.i]),
                            !.searched = last.searched \o <<found>>]
    /\ UNCHANGED <<response_cache, redis, now, lastSet, written, calls,
                   components, threads, reasoning_state>>

\* lines 463-580 after the loop: the response
RespondInTurn ==
    /\ last.op = "sequential_search"
    /\ last.pc = "break" \/ (last.pc = "search" /\ last.i > Len(last.queries))
    /\ \E synth_raises \in BOOLEAN :
       \E o \in Respond(components, response_cache, redis, now, last.request,
                        last.request.query,
                        Ranked(last.all_results, last.request.top_k),
                        synth_raises, last.failed) :
          /\ response_cache' = o.cache
          /\ redis' = o.redis
          /\ last' = [last EXCEPT !.pc = "responded",
                                  !.response = o.returned.response]
    /\ UNCHANGED <<now, lastSet, written, calls, components, threads,
                   reasoning_state>>

\* a started service with every component, at a request that misses the
\* cache and is not sent to the reasoner, after the optimizer gave one or
\* two queries
InitSequential ==
    /\ components = Components(TRUE, TRUE, TRUE, TRUE, TRUE, TRUE, "loaded")
    /\ response_cache = NewCache(FALSE, FALSE)
    /\ redis = [up |-> TRUE, data |-> NoRedisData]
    /\ now = 0
    /\ lastSet = NoSet
    /\ written = {}
    /\ calls = 0
    /\ threads = <<>>
    /\ reasoning_state = NoReasoning
    /\ \E request \in SequentialRequests :
       \E tr \in Transformations(request.query) :
          LET optimization_result == optimize_for_retrieval(request.query, tr)
          IN  /\ ~RunsConcurrently(optimization_result)
              /\ last = SearchingInTurn("search", request,
                                        optimization_result.optimized_queries,
                                        1, <<>>, {}, <<>>)

NextSequential ==
    \/ \E planned \in QueryPlans : SearchQuery(planned)
    \/ RespondInTurn

SpecSequential == InitSequential /\ [][NextSequential]_vars

(***************************************************************************)
(* MultiHopReasoner.reason (multi_hop.py), one step per search.  The       *)
(* confidences of the hops are products and means of scores: they are kept *)
(* in millionths (0.405 is 405000), scores stay in hundredths.             *)
(***************************************************************************)
\* the most hops a reasoner of the model is built with (max_hops)
MaxHops == 3

\* one in millionths
Unit == 1000000

RECURSIVE Pow(_, _)
Pow(b, e) == IF e = 0 THEN 1 ELSE b * Pow(b, e - 1)

RECURSIVE SumSeq(_)
SumSeq(xs) == IF Len(xs) = 0 THEN 0 ELSE xs[1] + SumSeq(Tail(xs))

\* x in seq
InSeq(x, xs) == \E i \in 1..Len(xs) : xs[i] = x

\* seq[-n:]
LastN(xs, n) == SubSeq(xs, Max(1, Len(xs) - n + 1), Len(xs))

\* the characters \w matches in the strings of the model
WordChars ==
    {CharAt(LowerChars, i) : i \in 1..26} \cup {CharAt(UpperChars, i) : i \in 1..26}
    \cup {CharAt("0123456789_", i) : i \in 1..11}

\* the maximal runs of characters of s that are not separators: of word
\* characters (re.findall(r'\b\w+\b', s)), or of non-blanks (s.split())
RECURSIVE Tokens(_, _, _, _)
Tokens(s, i, cur, words) ==
    LET flush_cur == IF cur = "" THEN <<>> ELSE <<cur>>
    IN  IF i > Len(s) THEN flush_cur
        ELSE LET c == CharAt(s, i)
                 sep == IF words THEN c \notin WordChars
                        ELSE c \in WhitespaceChars
             IN  IF sep THEN flush_cur \o Tokens(s, i + 1, "", words)
                 ELSE Tokens(s, i + 1, cur \o c, words)

re_findall_words(s) == Tokens(s, 1, "", TRUE)
str_split(s) == Tokens(s, 1, "", FALSE)

\* the concepts of ubuntu_follow_up_concepts, category after category
ubuntu_follow_up_concepts == <<
    "dependencies", "repository", "ppa", "apt", "dpkg",
    "kernel", "driver", "compatibility", "rollback",
    "firewall", "dns", "routing", "interface",
    "permissions", "sudo", "authentication", "certificates",
    "driver", "firmware", "compatibility", "detection",
    "systemctl", "daemon", "startup", "logs" >>

\* a search result of the reasoner
Doc(id, score, content) ==
    [id |-> id, content |-> content, similarity_score |-> score,
     source |-> "ubuntu-docs"]

\* the positions of the table at which a concept is listed for the first
\* time ("driver" and "compatibility" are listed under two categories)
FirstMentions ==
    {c \in 1..Len(ubuntu_follow_up_concepts) :
        \A d \in 1..(c - 1) :
            ubuntu_follow_up_concepts[d] # ubuntu_follow_up_concepts[c]}

\* the concepts that occur in a content: each once, in the order of the table
ConceptsIn(content) ==
    LET positions == [c \in 1..Len(ubuntu_follow_up_concepts) |-> c]
        Occurs(c) ==
            c \in FirstMentions /\ str_contains(content, ubuntu_follow_up_concepts[c])
        occurring == SelectSeq(positions, Occurs)
    IN  [i \in 1..Len(occurring) |-> ubuntu_follow_up_concepts[occurring[i]]]

\* the concepts of the results: a concept is appended unless it was found
\* before ("concept not in concepts_found")
RECURSIVE ConceptsOf(_, _)
ConceptsOf(results, found) ==
    IF Len(results) = 0 THEN found
    ELSE LET IsNew(c) == ~InSeq(c, found)
             mentioned == ConceptsIn(str_lower(results[1].content))
         IN  ConceptsOf(Tail(results), found \o SelectSeq(mentioned, IsNew))

\* MultiHopReasoner._process_hop_results
_process_hop_results(results, query, hop_number) ==
    IF Len(results) = 0
    THEN [hop_number |-> hop_number, query |-> query, evidence |-> <<>>,
          confidence |-> 0, concepts_found |-> <<>>]
    ELSE
    LET threshold == IF hop_number = 1 THEN 30 ELSE 20
        IsRelevant(r) == r.similarity_score >= threshold
        relevant_results == SelectSeq(results, IsRelevant)
        scores == [i \in 1..Len(relevant_results) |->
                      relevant_results[i].similarity_score]
        hop_confidence ==
            IF Len(relevant_results) = 0 THEN 0
            ELSE (((SumSeq(scores) * 10000) \div Len(relevant_results))
                  * Pow(9, hop_number - 1)) \div Pow(10, hop_number - 1)
    IN  [hop_number |-> hop_number, query |-> query,
         evidence |-> relevant_results, confidence |-> hop_confidence,
         concepts_found |-> ConceptsOf(relevant_results, <<>>)]

\* MultiHopReasoner._calculate_concept_priority, in tenths
_calculate_concept_priority(concept, query, context) ==
    LET boost(word, concepts) ==
            IF str_contains(query, word) /\ concept \in concepts THEN 3 ELSE 0
        recently == \E i \in 1..Len(context.recentTopics) :
                       str_contains(str_lower(context.recentTopics[i]), concept)
        priority == 5
            + boost("error", {"dependencies", "permissions", "driver"})
            + boost("install", {"repository", "ppa", "dependencies"})
            + boost("update", {"kernel", "driver", "compatibility"})
            - (IF recently THEN 2 ELSE 0)
    IN  Min(10, Max(0, priority))

\* sort(key=priority, reverse=True): stable
RECURSIVE InsertByPriority(_, _)
InsertByPriority(sorted, p) ==
    IF Len(sorted) = 0 THEN <<p>>
    ELSE IF sorted[1].priority >= p.priority
    THEN <<sorted[1]>> \o InsertByPriority(Tail(sorted), p)
    ELSE <<p>> \o sorted

RECURSIVE SortByPriority(_)
SortByPriority(ps) ==
    IF Len(ps) = 0 THEN <<>>
    ELSE InsertByPriority(SortByPriority(SubSeq(ps, 1, Len(ps) - 1)),
                          ps[Len(ps)])

\* MultiHopReasoner._extract_follow_up_concepts
_extract_follow_up_concepts(hop_result, original_query, context) ==
    LET query_lower == str_lower(original_query)
        scored == [i \in 1..Len(hop_result.concepts_found) |->
                      [concept |-> hop_result.concepts_found[i],
                       priority |-> _calculate_concept_priority(
                           hop_result.concepts_found[i], query_lower, context)]]
        Wanted(p) == p.priority > 5
        prioritized == FirstN(SortByPriority(SelectSeq(scored, Wanted)), 3)
    IN  [i \in 1..Len(prioritized) |-> prioritized[i].concept]

stop_words ==
    {"the", "a", "an", "and", "or", "but", "in", "on", "at", "to", "for",
     "of", "with", "by", "how", "what", "when", "where", "why", "is", "are",
     "was", "were", "do", "does", "did", "can", "could", "should", "would"}

\* MultiHopReasoner._extract_key_terms
_extract_key_terms(query) ==
    LET IsKey(word) == Len(word) > 2 /\ word \notin stop_words
    IN  FirstN(SelectSeq(re_findall_words(str_lower(query)), IsKey), 5)

\* the key terms of the queries of the model, computed once
KeyTermsTable == [q \in KnownStrings |-> _extract_key_terms(q)]

KeyTerms(query) ==
    IF query \in DOMAIN KeyTermsTable THEN KeyTermsTable[query]
    ELSE _extract_key_terms(query)

query_templates ==
    [dependencies |-> "Ubuntu dependencies issues with",
     repository |-> "Ubuntu repository configuration for",
     driver |-> "Ubuntu driver installation troubleshooting",
     permissions |-> "Ubuntu permissions fix for",
     kernel |-> "Ubuntu kernel compatibility issues"]

\* MultiHopReasoner._generate_follow_up_query
_generate_follow_up_query(concept, original_query) ==
    LET key_terms == KeyTerms(original_query)
        two == str_join(" ", FirstN(key_terms, 2))
    IN  IF concept \in DOMAIN query_templates
        THEN IF Len(key_terms) > 0
             THEN query_templates[concept] \o " " \o two
             ELSE query_templates[concept]
        ELSE "Ubuntu " \o concept \o " " \o two

\* the test without the one on the average confidence
_should_continue_reasoning_last_only(state) ==
    LET cs == state.confidence_scores
    IN  ~(Len(cs) > 0 /\ 10 * cs[Len(cs)] < 2 * Unit)

\* MultiHopReasoner._should_continue_reasoning
_should_continue_reasoning(state) ==
    LET cs == state.confidence_scores
    IN  ~ \/ (Len(cs) > 0 /\ 10 * SumSeq(cs) > 8 * Unit * Len(cs))
          \/ (Len(cs) > 0 /\ 10 * cs[Len(cs)] < 2 * Unit)

\* the overall confidence without the cap at 1.0
_calculate_overall_confidence_uncapped(state) ==
    LET cs == state.confidence_scores
        weights == <<10, 8, 6, 4>>
        w(i) == weights[Min(i, Len(weights))]
        weighted_sum == SumSeq([i \in 1..Len(cs) |-> cs[i] * w(i)])
        weight_sum == SumSeq([i \in 1..Len(cs) |-> w(i)])
    IN  IF Len(cs) = 0 THEN 0
        ELSE weighted_sum \div weight_sum
             + Min(Unit \div 10, Len(state.hops) * 3 * (Unit \div 100))

\* MultiHopReasoner._calculate_overall_confidence
_calculate_overall_confidence(state) ==
    LET cs == state.confidence_scores
        weights == <<10, 8, 6, 4>>
        w(i) == weights[Min(i, Len(weights))]
        weighted_sum == SumSeq([i \in 1..Len(cs) |-> cs[i] * w(i)])
        weight_sum == SumSeq([i \in 1..Len(cs) |-> w(i)])
        overall_confidence == IF weight_sum > 0
                              THEN weighted_sum \div weight_sum ELSE 0
        hop_bonus == Min(Unit \div 10, Len(state.hops) * 3 * (Unit \div 100))
    IN  IF Len(cs) = 0 THEN 0
        ELSE Min(Unit, overall_confidence + hop_bonus)

\* MultiHopReasoner._enhance_initial_query
_enhance_initial_query(query, context) ==
    LET with_topics ==
            IF Len(context.recentTopics) > 0
            THEN query \o " (context: "
                 \o str_join(" ", LastN(context.recentTopics, 2)) \o ")"
            ELSE query
    IN  IF Len(context.recentSessionEntities) > 0
        THEN with_topics \o " regarding "
             \o str_join(" ", LastN(context.recentSessionEntities, 3))
        ELSE with_topics

\* content.lower().split() of the strings of the model, computed once
WordsTable == [s \in KnownStrings |-> str_split(str_lower(s))]

LowerWords(content) ==
    IF content \in DOMAIN WordsTable THEN WordsTable[content]
    ELSE str_split(str_lower(content))

\* MultiHopReasoner._is_valuable_addition
_is_valuable_addition(new_content, existing_content) ==
    LET new_list == LowerWords(new_content)
        old_list == LowerWords(existing_content)
        new_words == {new_list[i] : i \in 1..Len(new_list)}
        existing_words == {old_list[i] : i \in 1..Len(old_list)}
    IN  /\ \/ new_words = {}
           \/ 10 * Cardinality(new_words \cap existing_words)
                 < 7 * Cardinality(new_words)
        /\ Len(new_content) > 20

\* the first evidence of every later hop that adds to the main answer
RECURSIVE AdditionalInfo(_, _)
AdditionalInfo(hops, main_answer) ==
    IF Len(hops) = 0 THEN <<>>
    ELSE (IF Len(hops[1].evidence) > 0
             /\ Len(hops[1].evidence[1].content) > 0
             /\ _is_valuable_addition(hops[1].evidence[1].content, main_answer)
          THEN <<hops[1].evidence[1].content>> ELSE <<>>)
         \o AdditionalInfo(Tail(hops), main_answer)

\* "1. info\n2. info\n"
RECURSIVE Numbered(_, _)
Numbered(infos, i) ==
    IF i > Len(infos) THEN ""
    ELSE str_nat(i) \o ". " \o infos[i] \o "\n" \o Numbered(infos, i + 1)

\* MultiHopReasoner._synthesize_multihop_answer
_synthesize_multihop_answer(state) ==
    IF Len(state.evidence) = 0
    THEN "I couldn't find sufficient information to answer your question."
    ELSE
    LET main_answer ==
            IF Len(state.hops) > 0 /\ Len(state.hops[1].evidence) > 0
            THEN state.hops[1].evidence[1].content ELSE ""
        additional_info == AdditionalInfo(Tail(state.hops), main_answer)
    IN  IF main_answer # ""
        THEN IF Len(additional_info) > 0
             THEN main_answer \o "\n\nAdditional considerations:\n"
                  \o Numbered(FirstN(additional_info, 2), 1)
             ELSE main_answer
        ELSE "Based on the available information: "
             \o str_join("; ", FirstN(additional_info, 3))

\* the state of one reason() call
NewReasoning(query, context, max_hops) ==
    [pc |-> "hop1", max_hops |-> max_hops, original_query |-> query,
     context |-> context, hops |-> <<>>, evidence |-> <<>>,
     queries |-> <<query>>, confidence_scores |-> <<>>,
     follow_up_concepts |-> <<>>, current_hop |-> 1, searches |-> <<>>,
     result |-> None]

\* the failure response, with its confidence in millionths
FailureResult(query, reason) ==
    [_create_failure_response(query, reason) EXCEPT
        !.confidence = @ * (Unit \div 100)]

\* the return of reason() from inside the loop or before it
Finished(state, result) == [state EXCEPT !.pc = "done", !.result = Some(result)]

\* the state with the result of a hop added
WithHop(state, hop_result) ==
    [state EXCEPT !.hops = Append(@, hop_result),
                  !.evidence = @ \o hop_result.evidence,
                  !.confidence_scores = Append(@, hop_result.confidence)]

\* set(text.lower().split())
WordSet(text) ==
    LET words == LowerWords(text) IN {words[i] : i \in 1..Len(words)}

\* MultiHopReasoner._is_query_similar: the Jaccard similarity of the words
\* of new_query and those of an existing query is above 0.7
_is_query_similar(new_query, existing_queries) ==
    LET new_words == WordSet(new_query)
    IN  \E e \in 1..Len(existing_queries) :
           LET existing_words == WordSet(existing_queries[e])
               intersection == Cardinality(new_words \cap existing_words)
               union == Cardinality(new_words \cup existing_words)
           IN  union > 0 /\ 10 * intersection > 7 * union

\* the loop of reason() without the limit on the number of hops
ContinueLoop_unlimited(state) ==
    /\ Len(state.follow_up_concepts) > 0
    /\ _should_continue_reasoning(state)

\* the condition of the while loop of reason()
ContinueLoop(state) ==
    /\ state.current_hop <= state.max_hops
    /\ Len(state.follow_up_concepts) > 0
    /\ _should_continue_reasoning(state)

\* what the search engine finds for the queries of the reasoner
DriverDoc == Doc("doc1", 70, "Update the driver and check the dependencies of the package")
NotesDoc == Doc("doc2", 25, "General notes about the desktop")
KernelDoc == Doc("doc3", 95, "Reinstall the kernel driver with sudo permissions")
ChmodDoc == Doc("doc4", 50, "Set the permissions of the file with sudo chmod")
OtherDoc == Doc("doc5", 10, "Unrelated text")
ExactDoc == Doc("doc6", 100, "The exact text of the question")

FirstHopOutcomes ==
    {SearchRaises, Searched(<<>>), Searched(<<NotesDoc>>),
     Searched(<<DriverDoc>>), Searched(<<DriverDoc, NotesDoc>>),
     Searched(<<KernelDoc>>), Searched(<<ChmodDoc, DriverDoc>>),
     Searched(<<ExactDoc>>)}

FollowUpOutcomes ==
    {SearchRaises, Searched(<<>>), Searched(<<DriverDoc>>),
     Searched(<<ChmodDoc>>), Searched(<<OtherDoc>>)}

CtxTopics ==
    [previous_confidence |-> None, conversation_depth |-> None,
     recentSessionEntities |-> <<>>, recentTopics |-> <<"Kernel upgrade">>]

ReasonQueries ==
    {"I tried updating but the error still shows", "What is apt?"}

ReasonContexts == {EmptyContext, CtxDeep, CtxTopics}

ReasonUnchanged ==
    UNCHANGED <<response_cache, redis, now, last, lastSet, written, calls,
                components, threads>>

\* hop 1: the enhanced query is searched (top_k=3)
ReasonFirstHop(outcome) ==
    /\ reasoning_state.pc = "hop1"
    /\ LET state == reasoning_state
           enhanced_query == _enhance_initial_query(state.original_query,
                                                    state.context)
           searched == [state EXCEPT !.queries = <<enhanced_query>>,
                                     !.searches = <<enhanced_query>>]
           initial_results == FirstN(outcome.results, 3)
           hop_result == _process_hop_results(initial_results,
                                              state.original_query, 1)
       IN  reasoning_state' =
             IF outcome.raised
             THEN Finished(searched, FailureResult(state.original_query,
                               "Reasoning error: search failed"))
             ELSE IF Len(initial_results) = 0
             THEN Finished(searched, FailureResult(state.original_query,
                               "No initial results found"))
             ELSE [WithHop(searched, hop_result) EXCEPT
                      !.pc = "loop",
                      !.follow_up_concepts =
                          _extract_follow_up_concepts(hop_result,
                              state.original_query, state.context),
                      !.current_hop = 2]
    /\ ReasonUnchanged

\* one iteration of the while loop: a follow-up query is searched (top_k=2)
ReasonFollowUp(outcome) ==
    /\ reasoning_state.pc = "loop"
    /\ ContinueLoop(reasoning_state)
    /\ LET state == reasoning_state
           follow_up_query ==
               _generate_follow_up_query(state.follow_up_concepts[1],
                                         state.original_query)
           searched == [state EXCEPT !.queries = Append(@, follow_up_query),
                                     !.searches = Append(@, follow_up_query)]
           hop_results == FirstN(outcome.results, 2)
           hop_result == _process_hop_results(hop_results, follow_up_query,
                                              state.current_hop)
       IN  reasoning_state' =
             IF outcome.raised
             THEN Finished(searched, FailureResult(state.original_query,
                               "Reasoning error: search failed"))
             ELSE IF Len(hop_results) > 0
             THEN [WithHop(searched, hop_result) EXCEPT
                      !.follow_up_concepts = Tail(@),
                      !.current_hop = @ + 1]
             ELSE [searched EXCEPT !.current_hop = @ + 1]
    /\ ReasonUnchanged

\* after the loop: the answer and the overall confidence
ReasonFinish ==
    /\ reasoning_state.pc = "loop"
    /\ ~ContinueLoop(reasoning_state)
    /\ LET state == reasoning_state
       IN  reasoning_state' =
             Finished(state,
                 [answer |-> _synthesize_multihop_answer(state),
                  evidence |-> state.evidence,
                  confidence |-> _calculate_overall_confidence(state),
                  queries_used |-> state.queries,
                  hops_performed |-> Len(state.hops)])
    /\ ReasonUnchanged

\* a reason() call on a reasoner built with max_hops
InitReason ==
    /\ response_cache = NewCache(FALSE, FALSE)
    /\ redis = [up |-> TRUE, data |-> NoRedisData]
    /\ now = 0
    /\ last = NoCall
    /\ lastSet = NoSet
    /\ written = {}
    /\ calls = 0
    /\ components = NoComponents
    /\ threads = <<>>
    /\ \E query \in ReasonQueries, context \in ReasonContexts,
          max_hops \in 1..MaxHops :
          reasoning_state = NewReasoning(query, context, max_hops)

NextReason ==
    \/ \E outcome \in FirstHopOutcomes : ReasonFirstHop(outcome)
    \/ \E outcome \in FollowUpOutcomes : ReasonFollowUp(outcome)
    \/ ReasonFinish

SpecReason == InitReason /\ [][NextReason]_vars

\* the call runs until it returns
SpecReasonFair == SpecReason /\ WF_vars(NextReason)

(***************************************************************************)
(* MultiHopReasoner.retrieve and _merge_results (multi_hop.py): the        *)
(* documents of the hops are tagged with their hop, collected and merged.  *)
(***************************************************************************)
\* a document of the search engine: the id fields and the score may be absent
RetrievedDoc(id, chunk_id, content, score) ==
    [id |-> id, chunk_id |-> chunk_id, document_id |-> None,
     content |-> content, score |-> score]

DocA == RetrievedDoc(Some("a"), None, "apt installs packages", None)
DocB == RetrievedDoc(Some("b"), None, "dpkg lists packages", None)
DocAScored == RetrievedDoc(Some("a"), None, "apt installs packages", Some(50))
DocBScored == RetrievedDoc(Some("b"), None, "dpkg lists packages", Some(90))
DocChunkA == RetrievedDoc(None, Some("a"), "chunk of a", None)
DocEmptyId == RetrievedDoc(Some(""), Some("b"), "b under another field", None)
DocNoId == RetrievedDoc(None, None, "snap packages", None)

\* what the search engine returns for the query of a hop
HopOutcomes ==
    {<<>>, <<DocA, DocB>>, <<DocA>>, <<DocB, DocA>>, <<DocAScored, DocBScored>>,
     <<DocBScored>>, <<DocChunkA, DocB>>, <<DocEmptyId, DocA>>, <<DocNoId>>,
     <<DocNoId, DocAScored>>}

\* a value of a dict field that Python's "or" takes (present and not empty)
Truthy(field) == field # None /\ field[1] # ""

\* doc.get("id") or doc.get("chunk_id") or doc.get("document_id")
\*   or hash(doc.get("content", "")[:100])
DocId(doc) ==
    IF Truthy(doc.id) THEN [hashed |-> FALSE, value |-> doc.id[1]]
    ELSE IF Truthy(doc.chunk_id) THEN [hashed |-> FALSE, value |-> doc.chunk_id[1]]
    ELSE IF Truthy(doc.document_id)
    THEN [hashed |-> FALSE, value |-> doc.document_id[1]]
    ELSE [hashed |-> TRUE, value |-> FirstN(doc.content, 100)]

\* sorted(docs, key=hop_number): stable
RECURSIVE InsertByHop(_, _)
InsertByHop(sorted, doc) ==
    IF Len(sorted) = 0 THEN <<doc>>
    ELSE IF sorted[Len(sorted)].hop_number <= doc.hop_number
    THEN Append(sorted, doc)
    ELSE Append(InsertByHop(SubSeq(sorted, 1, Len(sorted) - 1), doc),
                sorted[Len(sorted)])

RECURSIVE SortByHop(_)
SortByHop(docs) ==
    IF Len(docs) = 0 THEN <<>>
    ELSE InsertByHop(SortByHop(SubSeq(docs, 1, Len(docs) - 1)), docs[Len(docs)])

\* x.get("score", 0)
ScoreOf(doc) == IF doc.score = None THEN 0 ELSE doc.score[1]

\* unique_docs.sort(key=score, reverse=True): stable, equal scores keep
\* their order
RECURSIVE InsertByDocScore(_, _)
InsertByDocScore(sorted, doc) ==
    IF Len(sorted) = 0 THEN <<doc>>
    ELSE IF ScoreOf(sorted[Len(sorted)]) >= ScoreOf(doc)
    THEN Append(sorted, doc)
    ELSE Append(InsertByDocScore(SubSeq(sorted, 1, Len(sorted) - 1), doc),
                sorted[Len(sorted)])

RECURSIVE SortByDocScore(_)
SortByDocScore(docs) ==
    IF Len(docs) = 0 THEN <<>>
    ELSE InsertByDocScore(SortByDocScore(SubSeq(docs, 1, Len(docs) - 1)),
                          docs[Len(docs)])

\* the loop over sorted_docs with seen_ids, keeping the last document of
\* an id instead of the first
RECURSIVE KeepUnseen_last(_, _)
KeepUnseen_last(docs, unique_docs) ==
    IF Len(docs) = 0 THEN unique_docs
    ELSE LET doc == docs[1]
             Other(d) == DocId(d) # DocId(doc)
         IN  KeepUnseen_last(Tail(docs), Append(SelectSeq(unique_docs, Other), doc))

\* the loop over sorted_docs with seen_ids
RECURSIVE KeepUnseen(_, _)
KeepUnseen(docs, unique_docs) ==
    IF Len(docs) = 0 THEN unique_docs
    ELSE LET doc == docs[1]
             seen == \E i \in 1..Len(unique_docs) : DocId(unique_docs[i]) = DocId(doc)
         IN  KeepUnseen(Tail(docs),
                        IF seen THEN unique_docs ELSE Append(unique_docs, doc))

\* MultiHopReasoner._merge_results
_merge_results(docs) == SortByDocScore(KeepUnseen(SortByHop(docs), <<>>))

\* doc["hop_number"] = hop + 1
TagHop(hop_docs, hop_number) ==
    [i \in 1..Len(hop_docs) |->
        [id |-> hop_docs[i].id, chunk_id |-> hop_docs[i].chunk_id,
         document_id |-> hop_docs[i].document_id,
         content |-> hop_docs[i].content, score |-> hop_docs[i].score,
         hop_number |-> hop_number]]

\* a retrieve() call: hop counts the iterations made
NewRetrieval(max_hops) ==
    [pc |-> "retrieve", max_hops |-> max_hops, hop |-> 0, all_docs |-> <<>>,
     result |-> None, retrieval_info |-> None]

\* one iteration of the loop of retrieve(); the call returns the merged
\* documents when the hop finds nothing, when the follow-up query is too
\* similar, or after the last hop.  retrieval_info is what the call stores
\* in the first of the merged documents (multi_hop_metadata)
RetrieveHop(hop_docs, similar) ==
    /\ reasoning_state.pc = "retrieve"
    /\ reasoning_state.hop < reasoning_state.max_hops
    /\ LET state == reasoning_state
           all_docs == state.all_docs \o TagHop(hop_docs, state.hop + 1)
           stops == \/ Len(hop_docs) = 0
                    \/ state.hop + 1 = state.max_hops
                    \/ similar
           total_hops == IF Len(hop_docs) = 0 THEN state.hop ELSE state.hop + 1
           unique_docs == _merge_results(all_docs)
       IN  reasoning_state' =
             IF stops
             THEN [state EXCEPT
                      !.pc = "merged", !.all_docs = all_docs, !.hop = total_hops,
                      !.result = Some(unique_docs),
                      !.retrieval_info =
                          IF Len(unique_docs) = 0 THEN None
                          ELSE Some([total_hops |-> total_hops,
                                     total_docs_before_dedup |-> Len(all_docs),
                                     total_docs_after_dedup |-> Len(unique_docs)])]
             ELSE [state EXCEPT !.all_docs = all_docs, !.hop = @ + 1]
    /\ ReasonUnchanged

InitRetrieve ==
    /\ response_cache = NewCache(FALSE, FALSE)
    /\ redis = [up |-> TRUE, data |-> NoRedisData]
    /\ now = 0
    /\ last = NoCall
    /\ lastSet = NoSet
    /\ written = {}
    /\ calls = 0
    /\ components = NoComponents
    /\ threads = <<>>
    /\ \E max_hops \in 1..MaxHops : reasoning_state = NewRetrieval(max_hops)

NextRetrieve ==
    \E hop_docs \in HopOutcomes, similar \in BOOLEAN : RetrieveHop(hop_docs, similar)

SpecRetrieve == InitRetrieve /\ [][NextRetrieve]_vars

(***************************************************************************)
(* UbuntuQueryTransformer and QueryOptimizer (query_transformer.py).       *)
(* Confidences are in hundredths.                                          *)
(***************************************************************************)
\* s starts with prefix at position i
StartsAt(s, i, prefix) ==
    i + Len(prefix) - 1 <= Len(s) /\ SubSeq(s, i, i + Len(prefix) - 1) = prefix

\* s.replace(old, new): every occurrence, from the left, without overlap
RECURSIVE ReplaceFrom(_, _, _, _)
ReplaceFrom(s, i, old, new) ==
    IF i > Len(s) THEN ""
    ELSE IF StartsAt(s, i, old) THEN new \o ReplaceFrom(s, i + Len(old), old, new)
    ELSE CharAt(s, i) \o ReplaceFrom(s, i + 1, old, new)

str_replace(s, old, new) == IF old = "" THEN s ELSE ReplaceFrom(s, 1, old, new)

Digits == {CharAt("0123456789", i) : i \in 1..10}

\* the end of the longest run of characters of chars that starts at i
\* (i - 1 when there is none)
RunEnd(s, i, chars) ==
    LET stops == {j \in i..(Len(s) + 1) : j > Len(s) \/ CharAt(s, j) \notin chars}
    IN  (CHOOSE j \in stops : \A k \in stops : j <= k) - 1

\* command_synonyms, in the order of the dict
command_synonyms == <<
    [command |-> "update", synonyms |-> <<"upgrade", "refresh", "sync">>],
    [command |-> "install", synonyms |-> <<"add", "setup", "get">>],
    [command |-> "remove", synonyms |-> <<"uninstall", "delete", "purge">>],
    [command |-> "search", synonyms |-> <<"find", "look for", "locate">>],
    [command |-> "configure", synonyms |-> <<"setup", "set up", "config">>],
    [command |-> "restart", synonyms |-> <<"reboot", "reload", "refresh">>],
    [command |-> "start", synonyms |-> <<"run", "launch", "execute">>],
    [command |-> "stop", synonyms |-> <<"kill", "terminate", "end">> ] >>

\* UbuntuQueryTransformer._expand_command_synonyms: for every command the
\* first of its synonyms found in the text is followed by the command
RECURSIVE ExpandSynonyms(_, _)
ExpandSynonyms(expanded, c) ==
    IF c > Len(command_synonyms) THEN expanded
    ELSE LET synonyms == command_synonyms[c].synonyms
             found == {i \in 1..Len(synonyms) : str_contains(expanded, synonyms[i])}
             synonym == synonyms[CHOOSE i \in found : \A j \in found : i <= j]
         IN  ExpandSynonyms(
                 IF found = {} THEN expanded
                 ELSE str_replace(expanded, synonym,
                                  synonym \o " " \o command_synonyms[c].command),
                 c + 1)

_expand_command_synonyms(query) == ExpandSynonyms(str_lower(query), 1)

\* ubuntu_expansions, in the order of the dict
ubuntu_expansions == <<
    [term |-> "apt", expansions |-> <<"apt-get", "aptitude", "package manager">>],
    [term |-> "sudo", expansions |-> <<"superuser", "administrator", "root access">>],
    [term |-> "systemctl", expansions |-> <<"service", "daemon", "systemd">>],
    [term |-> "snap", expansions |-> <<"snapd", "snap package", "universal package">>],
    [term |-> "ppa", expansions |-> <<"personal package archive", "repository">>],
    [term |-> "kernel", expansions |-> <<"linux kernel", "system kernel">>],
    [term |-> "grub", expansions |-> <<"bootloader", "boot menu">>],
    [term |-> "unity", expansions |-> <<"desktop environment", "ubuntu desktop">>],
    [term |-> "gnome", expansions |-> <<"desktop environment", "gnome shell">>] >>

\* UbuntuQueryTransformer._expand_ubuntu_terms
RECURSIVE ExpandTerms(_, _)
ExpandTerms(expanded, t) ==
    IF t > Len(ubuntu_expansions) THEN expanded
    ELSE LET term == ubuntu_expansions[t].term
             expansion_text == str_join(" ", FirstN(ubuntu_expansions[t].expansions, 2))
         IN  ExpandTerms(
                 IF str_contains(expanded, term)
                 THEN str_replace(expanded, term, term \o " " \o expansion_text)
                 ELSE expanded,
                 t + 1)

_expand_ubuntu_terms(query) == ExpandTerms(str_lower(query), 1)

\* re.sub(r"error\s+\d+", replacement, s)
RECURSIVE SubErrorCode(_, _, _)
SubErrorCode(s, i, replacement) ==
    IF i > Len(s) THEN ""
    ELSE LET blanks == RunEnd(s, i + 5, WhitespaceChars)
             digits == RunEnd(s, blanks + 1, Digits)
         IN  IF StartsAt(s, i, "error") /\ blanks >= i + 5 /\ digits >= blanks + 1
             THEN replacement \o SubErrorCode(s, digits + 1, replacement)
             ELSE CharAt(s, i) \o SubErrorCode(s, i + 1, replacement)

\* re.sub of a pattern "p1.*p2" or "p1.*p2.*p3" on a text of one line: the
\* match starts at the first p1 that the other parts follow and, the stars
\* being greedy, ends with the last occurrence of the last part
SubParts(s, parts, replacement) ==
    LET starts == {i \in 1..Len(s) :
                      /\ StartsAt(s, i, parts[1])
                      /\ MatchParts(Tail(parts), s, i + Len(parts[1]), FALSE)}
        start == CHOOSE i \in starts : \A j \in starts : i <= j
        final == parts[Len(parts)]
        ends == {i \in 1..Len(s) : StartsAt(s, i, final)}
        stop == (CHOOSE i \in ends : \A j \in ends : i >= j) + Len(final) - 1
    IN  IF starts = {} THEN s
        ELSE SubSeq(s, 1, start - 1) \o replacement \o SubSeq(s, stop + 1, Len(s))

\* UbuntuQueryTransformer._normalize_error_patterns: error_patterns in the
\* order of the dict
_normalize_error_patterns(query) ==
    LET p1 == SubErrorCode(str_lower(query), 1, "ubuntu error code")
        p2 == str_replace(p1, "permission denied", "ubuntu permission error")
        p3 == str_replace(p2, "command not found", "ubuntu command missing")
        p4 == SubParts(p3, <<"package", "not", "found">>, "ubuntu package error")
        p5 == SubParts(p4, <<"broken", "package">>, "ubuntu package dependency error")
    IN  SubParts(p5, <<"repository", "error">>, "ubuntu repository error")

\* a value of a context that came as JSON: a string, or a number (written
\* as its digits)
JStr(s) == [kind |-> "str", value |-> s]
JInt(digits) == [kind |-> "int", value |-> digits]

\* a context of the transformer: keys are the keys the dict holds, a list
\* whose key is absent is empty
TransformContext(keys, topics, entities) ==
    [keys |-> keys, recentTopics |-> topics, recentSessionEntities |-> entities]

\* what a strategy does: it returns a text or raises
Gives(text) == [raised |-> FALSE, value |-> text]
Raises == [raised |-> TRUE, value |-> ""]

\* " ".join(items): TypeError unless every item is a str
JoinJson(items) ==
    IF \E i \in 1..Len(items) : items[i].kind # "str" THEN Raises
    ELSE Gives(str_join(" ", [i \in 1..Len(items) |-> items[i].value]))

\* category_keywords, in the order of the dict
category_keywords == <<
    [category |-> "installation", keywords |-> <<"install", "setup", "add", "get">>],
    [category |-> "networking",
     keywords |-> <<"network", "wifi", "ethernet", "internet", "connection">>],
    [category |-> "hardware",
     keywords |-> <<"driver", "device", "hardware", "usb", "graphics">>],
    [category |-> "security",
     keywords |-> <<"security", "permission", "sudo", "auth", "certificate">>],
    [category |-> "performance",
     keywords |-> <<"slow", "fast", "performance", "memory", "cpu">>],
    [category |-> "boot",
     keywords |-> <<"boot", "grub", "startup", "recovery", "kernel">>] >>

\* the first two context_patterns of every category
context_patterns ==
    [installation |-> <<"setup", "dependency">>,
     networking |-> <<"connection", "interface">>,
     hardware |-> <<"driver", "device">>,
     security |-> <<"permission", "authentication">>,
     performance |-> <<"slow", "optimization">>,
     boot |-> <<"grub", "kernel">>]

\* the first category one of whose keywords occurs in text, or None
CategoryOf(text) ==
    LET hits == {c \in 1..Len(category_keywords) :
                    \E k \in 1..Len(category_keywords[c].keywords) :
                        str_contains(text, category_keywords[c].keywords[k])}
    IN  IF hits = {} THEN None
        ELSE Some(category_keywords[CHOOSE c \in hits : \A d \in hits : c <= d].category)

\* UbuntuQueryTransformer._identify_context_category
_identify_context_category(query, context) ==
    LET by_query == CategoryOf(str_lower(query))
        recent_topics == JoinJson(context.recentTopics)
    IN  IF by_query # None THEN Gives(by_query)
        ELSE IF Len(context.recentTopics) = 0 THEN Gives(None)
        ELSE IF recent_topics.raised THEN Raises
        ELSE Gives(CategoryOf(str_lower(recent_topics.value)))

\* UbuntuQueryTransformer._expand_with_context
_expand_with_context(query, context) ==
    LET context_category == _identify_context_category(query, context)
        expanded ==
            IF context_category.value # None
            THEN str_lower(query) \o " "
                 \o str_join(" ", context_patterns[context_category.value[1]])
            ELSE str_lower(query)
        entity_text == JoinJson(LastN(context.recentSessionEntities, 3))
    IN  IF context_category.raised THEN Raises
        ELSE IF Len(context.recentSessionEntities) = 0 THEN Gives(expanded)
        ELSE IF entity_text.raised THEN Raises
        ELSE Gives(expanded \o " " \o entity_text.value)

\* the end of a match of \d+\.\d+ that starts at i (0 when there is none)
NumberEnd(s, i) ==
    LET whole == RunEnd(s, i, Digits)
        fraction == RunEnd(s, whole + 2, Digits)
    IN  IF whole >= i /\ StartsAt(s, whole + 1, ".") /\ fraction >= whole + 2
        THEN fraction ELSE 0

\* re.finditer(r"ubuntu\s+(\d+\.\d+)", s, re.IGNORECASE): the matched texts
\* and their versions
RECURSIVE UbuntuVersions(_, _)
UbuntuVersions(s, i) ==
    IF i > Len(s) THEN <<>>
    ELSE LET blanks == RunEnd(s, i + 6, WhitespaceChars)
             stop == NumberEnd(s, blanks + 1)
         IN  IF /\ i + 5 <= Len(s)
                /\ LowerAll(SubSeq(s, i, i + 5)) = "ubuntu"
                /\ blanks >= i + 6
                /\ stop > 0
             THEN <<[text |-> SubSeq(s, i, stop),
                     version |-> SubSeq(s, blanks + 1, stop)]>>
                  \o UbuntuVersions(s, stop + 1)
             ELSE UbuntuVersions(s, i + 1)

\* re.finditer(r"(\d+\.\d+)\s+lts", s, re.IGNORECASE)
RECURSIVE LtsVersions(_, _)
LtsVersions(s, i) ==
    IF i > Len(s) THEN <<>>
    ELSE LET number == NumberEnd(s, i)
             blanks == RunEnd(s, number + 1, WhitespaceChars)
         IN  IF /\ number > 0
                /\ blanks >= number + 1
                /\ blanks + 3 <= Len(s)
                /\ LowerAll(SubSeq(s, blanks + 1, blanks + 3)) = "lts"
             THEN <<[text |-> SubSeq(s, i, blanks + 3),
                     version |-> SubSeq(s, i, number)]>>
                  \o LtsVersions(s, blanks + 4)
             ELSE LtsVersions(s, i + 1)

\* version_patterns: the replacement of a match
UbuntuReplacement(match) ==
    IF match.version \in {"18.04", "20.04", "22.04"}
    THEN "ubuntu " \o match.version \o " LTS"
    ELSE "ubuntu " \o match.version

LtsReplacement(match) == "ubuntu " \o match.version \o " long term support"

\* transformed = transformed.replace(match.group(), replacement), match
\* after match
RECURSIVE ReplaceMatches(_, _, _)
ReplaceMatches(transformed, matches, lts) ==
    IF Len(matches) = 0 THEN transformed
    ELSE ReplaceMatches(
             str_replace(transformed, matches[1].text,
                         IF lts THEN LtsReplacement(matches[1])
                         ELSE UbuntuReplacement(matches[1])),
             Tail(matches), lts)

\* UbuntuQueryTransformer._transform_version_references
_transform_version_references(query) ==
    LET first == ReplaceMatches(query, UbuntuVersions(query, 1), FALSE)
    IN  ReplaceMatches(first, LtsVersions(first, 1), TRUE)

\* question_reformulations, in the order of the dict: "how do i (.+?)" is
\* the prefix "how do i " and one more character
question_reformulations == <<
    [prefix |-> "how do i ", suffix |-> " tutorial"],
    [prefix |-> "how to ", suffix |-> " guide"],
    [prefix |-> "what is ", suffix |-> " explanation"],
    [prefix |-> "why ", suffix |-> " reason"],
    [prefix |-> "when ", suffix |-> " timing"],
    [prefix |-> "where ", suffix |-> " location"],
    [prefix |-> "can i ", suffix |-> " possibility"],
    [prefix |-> "should i ", suffix |-> " recommendation"] >>

\* re.sub(prefix + "(.+?)", r"\1" + suffix, s): the lazy group takes one
\* character that is no newline
RECURSIVE SubQuestion(_, _, _, _)
SubQuestion(s, i, prefix, suffix) ==
    IF i > Len(s) THEN ""
    ELSE LET after == i + Len(prefix)
         IN  IF StartsAt(s, i, prefix) /\ after <= Len(s) /\ CharAt(s, after) # "\n"
             THEN CharAt(s, after) \o suffix \o SubQuestion(s, after + 1, prefix, suffix)
             ELSE CharAt(s, i) \o SubQuestion(s, i + 1, prefix, suffix)

\* UbuntuQueryTransformer._reformulate_question: the first pattern that
\* changes the text
_reformulate_question(query) ==
    LET query_lower == str_strip(str_lower(query))
        Sub(p) == SubQuestion(query_lower, 1, question_reformulations[p].prefix,
                              question_reformulations[p].suffix)
        changing == {p \in 1..Len(question_reformulations) : Sub(p) # query_lower}
    IN  IF changing = {} THEN query_lower
        ELSE Sub(CHOOSE p \in changing : \A q \in changing : p <= q)

\* simplifications, in the order of the dict
simplifications == <<
    <<"authentication", "login">>, <<"configuration", "setup">>,
    <<"repository", "repo">>, <<"dependencies", "requirements">>,
    <<"executable", "program">>, <<"terminal", "command line">>,
    <<"directory", "folder">>, <<"compilation", "build">> >>

\* UbuntuQueryTransformer._simplify_technical_terms
RECURSIVE Simplify(_, _)
Simplify(simplified, t) ==
    IF t > Len(simplifications) THEN simplified
    ELSE LET technical == simplifications[t][1]
         IN  Simplify(IF str_contains(simplified, technical)
                      THEN str_replace(simplified, technical,
                               technical \o " " \o simplifications[t][2])
                      ELSE simplified,
                      t + 1)

_simplify_technical_terms(query) == Simplify(str_lower(query), 1)

\* the queries and contexts of the calls
TransformQueries ==
    {"Install Firefox", "install firefox", "how to upgrade apt",
     "error 404 permission denied", "Ubuntu 20.04 LTS repository error",
     "package vim not found", "", "what is sudo authentication",
     "How do I add a ppa", "ubuntu 23.10 broken package", "wifi is slow"}

TransformContexts ==
    {None,
     Some(TransformContext({}, <<>>, <<>>)),
     Some(TransformContext({"recentSessionEntities"}, <<>>, <<JStr("firefox")>>)),
     Some(TransformContext({"recentTopics"}, <<JStr("Network setup")>>, <<>>)),
     Some(TransformContext({"recentSessionEntities"}, <<>>, <<JInt("42")>>)),
     Some(TransformContext({"recentTopics"}, <<JInt("7")>>, <<>>))}

\* the strategies of transform_query in the order in which they are tried:
\* what each makes of the query, and whether it is tried at all
Strategies(query, context) ==
    << [transformation_type |-> "command_synonym", confidence |-> 80, tried |-> TRUE,
        outcome |-> Gives(_expand_command_synonyms(query))],
       [transformation_type |-> "ubuntu_expansion", confidence |-> 90, tried |-> TRUE,
        outcome |-> Gives(_expand_ubuntu_terms(query))],
       [transformation_type |-> "error_normalization", confidence |-> 85, tried |-> TRUE,
        outcome |-> Gives(_normalize_error_patterns(query))],
       [transformation_type |-> "context_expansion", confidence |-> 75,
        tried |-> (context # None /\ context[1].keys # {}),
        outcome |-> IF context # None /\ context[1].keys # {}
                    THEN _expand_with_context(query, context[1]) ELSE Gives(query)],
       [transformation_type |-> "version_specific", confidence |-> 80, tried |-> TRUE,
        outcome |-> Gives(_transform_version_references(query))],
       [transformation_type |-> "question_reformulation", confidence |-> 70, tried |-> TRUE,
        outcome |-> Gives(_reformulate_question(query))],
       [transformation_type |-> "simplification", confidence |-> 60, tried |-> TRUE,
        outcome |-> Gives(_simplify_technical_terms(query))] >>

\* QueryTransformation
QueryTransformation(query, strategy) ==
    [original_query |-> query, transformed_query |-> strategy.outcome.value,
     transformation_type |-> strategy.transformation_type,
     confidence |-> strategy.confidence]

\* transformations.sort(key=confidence, reverse=True): stable
RECURSIVE InsertByConfidence(_, _)
InsertByConfidence(sorted, t) ==
    IF Len(sorted) = 0 THEN <<t>>
    ELSE IF sorted[Len(sorted)].confidence >= t.confidence
    THEN Append(sorted, t)
    ELSE Append(InsertByConfidence(SubSeq(sorted, 1, Len(sorted) - 1), t),
                sorted[Len(sorted)])

\* the transformations in the order in which they were appended
SortByConfidence_unsorted(transformations) == transformations

RECURSIVE SortByConfidence(_)
SortByConfidence(transformations) ==
    IF Len(transformations) = 0 THEN <<>>
    ELSE InsertByConfidence(
             SortByConfidence(SubSeq(transformations, 1, Len(transformations) - 1)),
             transformations[Len(transformations)])

\* the end of transform_query: the transformations of the strategies that
\* changed the query, sorted, or nothing when a strategy raised
TransformationsOf(query, strategies) ==
    LET Changed(strategy) == strategy.tried /\ strategy.outcome.value # query
    IN  IF \E k \in 1..Len(strategies) : strategies[k].outcome.raised THEN <<>>
        ELSE LET changed == SelectSeq(strategies, Changed)
             IN  SortByConfidence([i \in 1..Len(changed) |->
                                      QueryTransformation(query, changed[i])])

\* UbuntuQueryTransformer.transform_query
transform_query(query, context) ==
    TransformationsOf(query, Strategies(query, context))

\* a choice that does not cut the list to max_transforms
BestOf_uncut(all_transformations, max_transforms) ==
    LET High(t) == t.confidence >= 70
        Medium(t) == 50 <= t.confidence /\ t.confidence < 70
    IN  SelectSeq(all_transformations, High)
        \o SelectSeq(all_transformations, Medium)

\* the choice of get_best_transformations among all transformations
BestOf(all_transformations, max_transforms) ==
    LET High(t) == t.confidence >= 70
        Medium(t) == 50 <= t.confidence /\ t.confidence < 70
        high_confidence == SelectSeq(all_transformations, High)
        medium_confidence == SelectSeq(all_transformations, Medium)
    IN  IF Len(high_confidence) >= max_transforms
        THEN FirstN(high_confidence, max_transforms)
        ELSE FirstN(high_confidence \o medium_confidence, max_transforms)

\* UbuntuQueryTransformer.get_best_transformations
get_best_transformations(query, context, max_transforms) ==
    BestOf(transform_query(query, context), max_transforms)

\* the result of optimize_for_retrieval, given the transformations
OptimizedWith(query, transformations) ==
    LET optimized == optimize_for_retrieval(query,
                         [i \in 1..Len(transformations) |->
                             transformations[i].transformed_query])
    IN  [original_query |-> query,
         optimized_queries |-> optimized.optimized_queries,
         transformations_applied |-> Len(transformations),
         transformation_details |-> transformations,
         search_strategy |-> optimized.search_strategy]

\* QueryOptimizer.optimize_for_retrieval on the transformations of the
\* transformer (max_transforms is 3 by default)
OptimizeForRetrieval(query, context) ==
    OptimizedWith(query, get_best_transformations(query, context, 3))

\* a call of transform_query.  The transformer and the optimizer keep no
\* state between calls: a behaviour is one call
TransformQuery(query, context) ==
    /\ calls = 0
    /\ calls' = 1
    /\ last' = [op |-> "transform_query", query |-> query, context |-> context,
                ret |-> transform_query(query, context)]
    /\ UNCHANGED <<response_cache, redis, now, lastSet, written,
                   components, threads, reasoning_state>>

\* a call of optimize_for_retrieval
Optimize(query, context) ==
    /\ calls = 0
    /\ calls' = 1
    /\ last' = [op |-> "optimize_for_retrieval", query |-> query,
                context |-> context, ret |-> OptimizeForRetrieval(query, context)]
    /\ UNCHANGED <<response_cache, redis, now, lastSet, written,
                   components, threads, reasoning_state>>

InitTransform ==
    /\ response_cache = NewCache(FALSE, FALSE)
    /\ redis = [up |-> TRUE, data |-> NoRedisData]
    /\ now = 0
    /\ last = NoCall
    /\ lastSet = NoSet
    /\ written = {}
    /\ calls = 0
    /\ components = NoComponents
    /\ threads = <<>>
    /\ reasoning_state = NoReasoning

NextTransform ==
    \/ \E query \in TransformQueries, context \in TransformContexts :
          TransformQuery(query, context)
    \/ \E query \in TransformQueries, context \in TransformContexts :
          Optimize(query, context)

SpecTransform == InitTransform /\ [][NextTransform]_vars

(***************************************************************************)
(* The chunking of the corpus: DocumentChunker (utils/document_chunking.py) *)
(* and UbuntuCorpusProcessor.chunk_documents (data_pipeline.py), whose      *)
(* file the service loads (app.py 123-144).  The sizes are scaled down     *)
(* from 512 and 128; chunk_overlap // 10 is one word.                      *)
(***************************************************************************)
\* DocumentChunker(chunk_size, chunk_overlap, separator): CHUNK_SIZE and
\* CHUNK_OVERLAP of the environment
ChunkerConfigs ==
    {[chunk_size |-> 16, chunk_overlap |-> 10, separator |-> "\n"],
     [chunk_size |-> 20, chunk_overlap |-> 10, separator |-> "\n"]}

\* a document of the corpus; is_chunk, parent_id and chunk_id are absent
\* until the chunking sets them
Document(id, content, response) ==
    [id |-> id, content |-> content, response |-> response,
     is_chunk |-> FALSE, parent_id |-> None, chunk_id |-> None]

\* s.split(sep) for a non-empty sep
RECURSIVE SplitBy(_, _, _, _)
SplitBy(s, sep, i, cur) ==
    IF i > Len(s) THEN <<cur>>
    ELSE IF /\ i + Len(sep) - 1 <= Len(s)
            /\ SubSeq(s, i, i + Len(sep) - 1) = sep
    THEN <<cur>> \o SplitBy(s, sep, i + Len(sep), "")
    ELSE SplitBy(s, sep, i + 1, cur \o CharAt(s, i))

\* DocumentChunker._generate_chunk_id (the digest stands for its first
\* eight hex digits)
_generate_chunk_id(text, doc_id, chunk_index) ==
    doc_id \o "_chunk_" \o str_nat(chunk_index) \o "_" \o md5_hexdigest(text)

\* DocumentChunker._get_overlap_text; words[-0:] is the whole list
_get_overlap_text(self, text) ==
    LET words == str_split(text)
        n == self.chunk_overlap \div 10
    IN  IF Len(words) <= n THEN text
        ELSE str_join(" ", IF n = 0 THEN words ELSE LastN(words, n))

\* the chunk that chunk_document makes of current_chunk
ChunkOf(document, current_chunk, content, chunk_index) ==
    [document EXCEPT
        !.content = content,
        !.chunk_id = Some(_generate_chunk_id(current_chunk, document.id,
                                             chunk_index)),
        !.is_chunk = TRUE,
        !.parent_id = Some(document.id)]

\* the loop of chunk_document over the segments, and the last chunk
RECURSIVE SegmentLoop(_, _, _, _, _, _)
SegmentLoop(self, document, segments, i, current_chunk, chunk_index) ==
    IF i > Len(segments)
    THEN IF current_chunk # ""
         THEN <<ChunkOf(document, current_chunk, StripEnds(current_chunk),
                        chunk_index)>>
         ELSE <<>>
    ELSE LET segment == segments[i]
             save == /\ Len(current_chunk) + Len(segment) + Len(self.separator)
                           > self.chunk_size
                     /\ current_chunk # ""
             started == IF save THEN _get_overlap_text(self, current_chunk)
                        ELSE current_chunk
             added == IF started # "" THEN started \o self.separator \o segment
                      ELSE segment
         IN  (IF save
              THEN <<ChunkOf(document, current_chunk, StripEnds(current_chunk),
                             chunk_index)>>
              ELSE <<>>)
             \o SegmentLoop(self, document, segments, i + 1, added,
                            IF save THEN chunk_index + 1 ELSE chunk_index)

\* content[i:i + n] for the 0-based i
Slice(content, i, n) == SubSeq(content, i + 1, Min(i + n, Len(content)))

\* the character chunking of chunk_document
RECURSIVE CharLoop(_, _, _)
CharLoop(self, document, i) ==
    LET step == self.chunk_size - self.chunk_overlap
        chunk_text == Slice(document.content, i, self.chunk_size)
    IN  IF i >= Len(document.content) THEN <<>>
        ELSE (IF chunk_text # ""
              THEN <<ChunkOf(document, chunk_text, chunk_text, i \div step)>>
              ELSE <<>>)
             \o CharLoop(self, document, i + step)

\* DocumentChunker.chunk_document
chunk_document(self, document) ==
    IF Len(document.content) <= self.chunk_size
    THEN <<[document EXCEPT !.chunk_id =
               Some(_generate_chunk_id(document.content, document.id, 0))]>>
    ELSE IF self.separator # ""
            /\ str_contains(document.content, self.separator)
    THEN SegmentLoop(self, document,
                     SplitBy(document.content, self.separator, 1, ""),
                     1, "", 0)
    ELSE CharLoop(self, document, 0)

\* DocumentChunker.chunk_collection
RECURSIVE chunk_collection(_, _)
chunk_collection(self, docs) ==
    IF Len(docs) = 0 THEN <<>>
    ELSE chunk_document(self, docs[1]) \o chunk_collection(self, Tail(docs))

\* the chunk that chunk_documents makes of a part of the answer
AnswerChunk(doc, response, chunk_index) ==
    [doc EXCEPT
        !.response = response,
        !.id = doc.id \o "_chunk_" \o str_nat(chunk_index),
        !.is_chunk = TRUE,
        !.parent_id = Some(doc.id)]

\* the loop of chunk_documents over the paragraphs, and the final chunk
RECURSIVE ParagraphLoop(_, _, _, _, _, _)
ParagraphLoop(self, doc, paragraphs, i, current_chunk, chunk_index) ==
    IF i > Len(paragraphs)
    THEN IF StripEnds(current_chunk) # ""
         THEN <<AnswerChunk(doc, StripEnds(current_chunk), chunk_index)>>
         ELSE <<>>
    ELSE LET para == paragraphs[i]
             save == /\ Len(current_chunk) + Len(para) + 2 > self.chunk_size
                     /\ current_chunk # ""
             overlap_point == Max(0, Len(current_chunk) - self.chunk_overlap)
             started == IF save
                        THEN SubSeq(current_chunk, overlap_point + 1,
                                    Len(current_chunk)) \o "\n\n"
                        ELSE current_chunk
         IN  (IF save
              THEN <<AnswerChunk(doc, StripEnds(current_chunk), chunk_index)>>
              ELSE <<>>)
             \o ParagraphLoop(self, doc, paragraphs, i + 1,
                              started \o para \o "\n\n",
                              IF save THEN chunk_index + 1 ELSE chunk_index)

\* the character chunking of a long answer without paragraphs
RECURSIVE AnswerCharLoop(_, _, _)
AnswerCharLoop(self, doc, i) ==
    LET step == self.chunk_size - self.chunk_overlap
        chunk_text == Slice(doc.response, i, self.chunk_size)
    IN  IF i >= Len(doc.response) THEN <<>>
        ELSE (IF StripEnds(chunk_text) # ""
              THEN <<AnswerChunk(doc, chunk_text, i \div step)>>
              ELSE <<>>)
             \o AnswerCharLoop(self, doc, i + step)

\* what chunk_documents appends for one document: the document when
\* question and answer are short or only the question is long, and the
\* chunks of the answer, without the document, when the answer is long
ChunksOfDoc(self, doc) ==
    IF /\ Len(doc.content) <= self.chunk_size
       /\ Len(doc.response) <= self.chunk_size
    THEN <<doc>>
    ELSE IF Len(doc.response) > self.chunk_size
    THEN LET paragraphs == SplitBy(doc.response, "\n\n", 1, "")
         IN  IF Len(paragraphs) > 1
             THEN ParagraphLoop(self, doc, paragraphs, 1, "", 0)
             ELSE AnswerCharLoop(self, doc, 0)
    ELSE <<doc>>

\* UbuntuCorpusProcessor.chunk_documents: the list written to the chunked
\* file
RECURSIVE chunk_documents(_, _)
chunk_documents(self, docs) ==
    IF Len(docs) = 0 THEN <<>>
    ELSE ChunksOfDoc(self, docs[1]) \o chunk_documents(self, Tail(docs))

\* the texts of the documents: short, segments, a segment longer than a
\* chunk, no separator, paragraphs, segments of several words
ChunkTexts ==
    {"short text",
     "one two\nthree four\nfive six",
     "aaaaaaaaaaaaaaaaaaaaaa\nbb",
     "abcdefghijklmnopqrstuvwxyz",
     "first para\n\nsecond para\n\nthird",
     "one two three\nfour five six\nseven"}

\* the documents with a text as content and those with a text as answer
ContentDocs == {Document("d1", t, "short text") : t \in ChunkTexts}
AnswerDocs == {Document("d2", "short text", t) : t \in ChunkTexts}

\* the processed QA pairs (ubuntu_qa_pairs.json): no two with one id
ProcessedFiles ==
    {<<d>> : d \in ContentDocs \cup AnswerDocs}
    \cup {<<c, a>> : c \in ContentDocs, a \in AnswerDocs}

\* the globals of app.py before initialize_components
NotLoaded(self) == [document_chunker |-> self, documents |-> None]

\* a call of chunk_document.  The chunker keeps no state between calls: a
\* behaviour is one call of it, or the pipeline and the start of the service
ChunkDocument(document) ==
    /\ calls = 0
    /\ written = None
    /\ calls' = 1
    /\ last' = [op |-> "chunk_document", document |-> document,
                ret |-> chunk_document(components.document_chunker, document)]
    /\ UNCHANGED <<response_cache, redis, now, lastSet, written,
                   components, threads, reasoning_state>>

\* a call of chunk_collection
ChunkCollection(docs) ==
    /\ calls = 0
    /\ written = None
    /\ calls' = 1
    /\ last' = [op |-> "chunk_collection", documents |-> docs,
                ret |-> chunk_collection(components.document_chunker, docs)]
    /\ UNCHANGED <<response_cache, redis, now, lastSet, written,
                   components, threads, reasoning_state>>

\* run_pipeline, step 3: the processed file is chunked and the chunked file
\* written; written is the chunked file, None while it does not exist
ChunkDocuments(processed) ==
    /\ calls = 0
    /\ written = None
    /\ LET chunked_documents ==
               chunk_documents(components.document_chunker, processed)
       IN  /\ written' = Some(chunked_documents)
           /\ last' = [op |-> "chunk_documents", documents |-> processed,
                       ret |-> Len(chunked_documents)]
    /\ UNCHANGED <<response_cache, redis, now, lastSet, calls,
                   components, threads, reasoning_state>>

\* initialize_components (app.py 123-144): the pipeline runs when there is
\* no chunked file, and the chunked file is loaded as documents
InitializeComponents(processed) ==
    /\ calls = 0
    /\ components.documents = None
    /\ LET chunked_file ==
               IF written = None
               THEN Some(chunk_documents(components.document_chunker, processed))
               ELSE written
       IN  /\ written' = chunked_file
           /\ components' = [components EXCEPT !.documents = chunked_file]
           /\ last' = [op |-> "initialize_components",
                       ret |-> Len(chunked_file[1])]
    /\ UNCHANGED <<response_cache, redis, now, lastSet, calls,
                   threads, reasoning_state>>

InitChunk ==
    /\ response_cache = NewCache(FALSE, FALSE)
    /\ redis = [up |-> TRUE, data |-> NoRedisData]
    /\ now = 0
    /\ last = NoCall
    /\ lastSet = NoSet
    /\ written = None
    /\ calls = 0
    /\ components \in {NotLoaded(self) : self \in ChunkerConfigs}
    /\ threads = <<>>
    /\ reasoning_state = NoReasoning

NextChunk ==
    \/ \E document \in ContentDocs : ChunkDocument(document)
    \/ \E docs \in ProcessedFiles : ChunkCollection(docs)
    \/ \E processed \in ProcessedFiles : ChunkDocuments(processed)
    \/ \E processed \in ProcessedFiles : InitializeComponents(processed)

SpecChunk == InitChunk /\ [][NextChunk]_vars

(***************************************************************************)
(* The follow-up suggestions of the synthesizer (answer_synthesizer.py     *)
(* 174-236), as functions of the query, the context and the chunks.        *)
(***************************************************************************)
\* the queries, contexts and chunks of the calls
FollowupQueries ==
    {"What is apt?", "How do I UPDATE and install vlc", "Printer error",
     "The network is down", "install firefox", "It failed with an error",
     "Permission denied"}

FollowupContexts ==
    {None,
     Some(SynthContext(None, None, None)),
     Some(SynthContext(Some(<<"HP printer", "Printer">>), None, None)),
     Some(SynthContext(Some(<<"Firefox", "apache2", "printer">>), None,
                       Some(5))),
     Some(SynthContext(Some(<<>>), Some(<<"nginx">>), Some(4))),
     Some(SynthContext(None, None, Some(4))),
     Some(SynthContext(Some(<<"gedit">>), None, Some(2)))}

FollowupChunks ==
    {<<>>,
     <<SynthChunk(None, Some("Open a terminal and edit the config"), None)>>,
     <<SynthChunk(Some("Install the package with apt"),
                  Some("Run the command"), None)>>,
     <<SynthChunk(Some(""), None, Some("The configuration file"))>>,
     <<SynthChunk(None, Some("Nothing of note"), None),
       SynthChunk(None, Some("Run the command"), None)>>}

\* a call of _generate_followups.  The synthesizer keeps no state between
\* calls: a behaviour is one call
GenerateFollowups(query, context, chunks) ==
    /\ calls = 0
    /\ calls' = 1
    /\ last' = [op |-> "_generate_followups", query |-> query,
                context |-> context, chunks |-> chunks,
                ret |-> _generate_followups(query, context, chunks)]
    /\ UNCHANGED <<response_cache, redis, now, lastSet, written,
                   components, threads, reasoning_state>>

InitFollowups ==
    /\ response_cache = NewCache(FALSE, FALSE)
    /\ redis = [up |-> TRUE, data |-> NoRedisData]
    /\ now = 0
    /\ last = NoCall
    /\ lastSet = NoSet
    /\ written = {}
    /\ calls = 0
    /\ components = NoComponents
    /\ threads = <<>>
    /\ reasoning_state = NoReasoning

NextFollowups ==
    \E query \in FollowupQueries, context \in FollowupContexts,
       chunks \in FollowupChunks :
        GenerateFollowups(query, context, chunks)

SpecFollowups == InitFollowups /\ [][NextFollowups]_vars

(***************************************************************************)
(* Properties of the cache.                                                *)
(***************************************************************************)
\* c and d are the same character, or the same letter in two cases
SameLetter(c, d) ==
    \/ c = d
    \/ \E i \in 1..26 : {c, d} = {CharAt(UpperChars, i), CharAt(LowerChars, i)}

\* q1 and q2 differ only in letter case and in surrounding whitespace
SameUpToCaseAndMargin(q1, q2) ==
    LET c1 == StripEnds(q1)
        c2 == StripEnds(q2)
    IN  /\ Len(c1) = Len(c2)
        /\ \A i \in 1..Len(c1) : SameLetter(CharAt(c1, i), CharAt(c2, i))

\* the only keyword argument is top_k
TopKOnly(a) == Len(a.kwargs) = 1 /\ a.kwargs[1].k = "top_k"

\* the last call is a get made after a successful set, with no set, delete
\* or flush in between, while the entry the set wrote is held and not expired
GetAfterSet ==
    /\ last.op = "get"
    /\ ~response_cache.disabled
    /\ lastSet.valid
    /\ lastSet.kept
    /\ last.t < lastSet.t + (IF lastSet.ttl = None THEN response_cache.ttl
                             ELSE lastSet.ttl[1])

\* some successful set was made with the arguments of a, up to the case and
\* the margin of the query
WrittenLike(a) ==
    \E id \in written :
        /\ SameUpToCaseAndMargin(CallArgs[id].query, a.query)
        /\ CallArgs[id].intent = a.intent
        /\ CallArgs[id].kwargs = a.kwargs

\* C1: on an enabled cache, after set(Q, I, top_k=k, P) a get before expiry
\* with a query that differs from Q only in case or surrounding whitespace,
\* the same intent and the same top_k returns P; a get with another top_k
\* (under which nothing was stored) is a miss.
C1_CaseInsensitiveKey ==
    (/\ GetAfterSet
     /\ lastSet.ttl = None
     /\ TopKOnly(lastSet.a) /\ TopKOnly(last.a)
     /\ last.a.intent = lastSet.a.intent
     /\ SameUpToCaseAndMargin(last.a.query, lastSet.a.query))
    => IF last.a.kwargs = lastSet.a.kwargs
       THEN last.ret = Hit(lastSet.data)
       ELSE (~WrittenLike(last.a) => last.ret = Miss)

\* a get with another spelling of the query has returned the stored payload
C1_Witness ==
    /\ GetAfterSet
    /\ lastSet.ttl = None
    /\ TopKOnly(lastSet.a)
    /\ last.a.kwargs = lastSet.a.kwargs
    /\ last.a.query # lastSet.a.query
    /\ SameUpToCaseAndMargin(last.a.query, lastSet.a.query)
    /\ last.ret = Hit(lastSet.data)

\* C8: on the in-memory backend the map never holds more entries than its
\* capacity, after any sequence of set, get, delete and flush calls.
C8_MemoryBounded == Len(response_cache.memory_cache) <= MemoryLimit

\* a set on a full map has evicted an entry
C8_Witness ==
    /\ last.op = "set"
    /\ last.overflow
    /\ Len(response_cache.memory_cache) = MemoryLimit

\* the map before has the entries of the map after, and one more
OneEvicted(before, after) ==
    \E i \in 1..Len(before) :
        /\ after = [j \in 1..(Len(before) - 1) |->
                       IF j < i THEN before[j] ELSE before[j + 1]]
        /\ \A j \in 1..Len(before) :
               before[i].expires_at <= before[j].expires_at

\* C28: when a set makes the in-memory map exceed its capacity, exactly one
\* entry is evicted, and its expiry time is the soonest of all entries then
\* in the map, the one just inserted included.
C28_EvictsSoonestExpiry ==
    [][(/\ last'.op = "set" /\ calls' = calls + 1 /\ last'.ret
        /\ response_cache.redis_client = None)
       => LET a == last'.a
              cache_ttl == IF last'.ttl # None THEN last'.ttl[1]
                           ELSE response_cache.ttl
              inserted ==
                  DictPut(response_cache.memory_cache,
                          _generate_key(response_cache, a.query, a.intent,
                                        a.kwargs),
                          [data |-> last'.data,
                           expires_at |-> last'.t + cache_ttl])
          IN  IF Len(inserted) > MemoryLimit
              THEN OneEvicted(inserted, response_cache'.memory_cache)
              ELSE response_cache'.memory_cache = inserted]_vars

\* a set on a full map whose own entry expires first and is the one evicted
C28_Witness ==
    /\ last.op = "set"
    /\ lastSet.valid /\ ~lastSet.kept
    /\ lastSet.ttl = None
    /\ response_cache.redis_client = None
    /\ Len(response_cache.memory_cache) = MemoryLimit

\* kw2 holds the keyword arguments of kw1 in some order
SameKwargs(kw1, kw2) ==
    /\ Len(kw1) = Len(kw2)
    /\ {kw1[i] : i \in 1..Len(kw1)} = {kw2[i] : i \in 1..Len(kw2)}

\* C10: the cache key does not depend on the order of the extra parameters:
\* an entry stored with the parameters in one order is found by a get that
\* gives the same parameters in any other order.
C10_KwargOrderIrrelevant ==
    (/\ GetAfterSet
     /\ last.a.query = lastSet.a.query
     /\ last.a.intent = lastSet.a.intent
     /\ SameKwargs(last.a.kwargs, lastSet.a.kwargs))
    => last.ret = Hit(lastSet.data)

\* C7: when the durable backend is configured but unreachable at the time of
\* a call, the cache degrades to the in-memory map: a set during the outage
\* succeeds and a get of the same key during the outage, before expiry,
\* returns the stored payload.
C7_DegradesToMemory ==
    /\ (last.op = "set" /\ last.outage
        /\ (last.ttl = None \/ last.ttl[1] > 0)) => last.ret = TRUE
    /\ (last.op = "get" /\ last.outage /\ lastSet.valid /\ lastSet.outage
        /\ last.a = lastSet.a
        /\ last.t < lastSet.t + (IF lastSet.ttl = None THEN response_cache.ttl
                                 ELSE lastSet.ttl[1]))
       => last.ret = Hit(lastSet.data)

\* C9: under any interleaving of get, set and delete calls of several threads
\* on the same in-memory cache no call takes its internal-error path: the
\* errors counter stays 0, every set returns True, and no get is answered
\* from the except branch.
C9_NoInternalError ==
    /\ response_cache.stats.errors = 0
    /\ \A t \in DOMAIN threads :
          threads[t].pc = "done" =>
              /\ ~threads[t].raised
              /\ (threads[t].op = "set" => threads[t].ret = Some(TRUE))

(***************************************************************************)
(* Properties of the service.                                              *)
(***************************************************************************)
\* every component of the pipeline was created
AllInitialized(comp) ==
    /\ comp.search_engine /\ comp.query_rewriter /\ comp.contextual_rewriter
    /\ comp.answer_synthesizer /\ comp.query_optimizer
    /\ comp.multi_hop_reasoner

\* the last call was a retrieve request
Retrieved == last.op = "retrieve"

\* C2: with a default (empty) context should_use_multihop is true for the
\* query "I tried updating but the error still shows" and false for the
\* query "What is apt?".
C2_TriggerExamples ==
    (last.op = "analysis" /\ last.result.status = 200
     /\ last.request.context = None)
    => /\ (last.request.query = "I tried updating but the error still shows"
           => last.result.should_use_multihop)
       /\ (last.request.query = "What is apt?"
           => ~last.result.should_use_multihop)

\* C3: whatever component fails during a request, retrieve returns a response
\* object and propagates no error; when the request ended in the exception
\* handler the response is the low-confidence fallback.
C3_NeverPropagates ==
    Retrieved =>
        /\ ~last.returned.raised
        /\ last.returned.response # None
        /\ (last.trace.excepted =>
               last.returned.response[1] \in Fallbacks(last.request))

\* a request in which a component raised out of the pipeline
C3_Witness ==
    /\ Retrieved
    /\ last.trace.excepted
    /\ last.trace.faults \cap {"search", "optimizer", "synthesizer"} # {}
    /\ last.returned.response # None
    /\ last.returned.response[1].confidence = FallbackConfidence

\* C4: with every component initialized and an empty corpus, the request
\* "shutdown" with intent "ShutdownComputer" is answered with the canned
\* response of the intent, confidence 0.3 and no sources.
C4_IntentFallbackOnNoEvidence ==
    (/\ Retrieved
     /\ last.request.query = "shutdown"
     /\ last.request.intent = Some("ShutdownComputer")
     /\ AllInitialized(components) /\ components.corpus = "empty"
     /\ last.trace.faults = {})
    => last.returned =
           Returned(Response(intent_responses["ShutdownComputer"], <<>>,
                             FallbackConfidence, None))

\* C5: on the single-hop and on the multi-hop path, the response retrieve
\* returns is the response built before the cache write was attempted,
\* whether or not the write fails.
C5_WriteFailureKeepsResponse ==
    (Retrieved /\ last.trace.computed # None)
    => last.returned = Returned(last.trace.computed[1])

\* C6: on a cache miss with a true multi-hop decision and a result from the
\* reasoner, retrieve returns the answer and the confidence of the reasoner
\* and stores the response, so that the same query, intent and top_k is a
\* cache hit afterwards.
C6_MultiHopStored ==
    (/\ Retrieved
     /\ last.trace.path = "multi_hop"
     /\ last.trace.reasoned # None
     /\ ~response_cache.disabled /\ ~Outage)
    => /\ last.returned.response # None
       /\ last.returned.response[1].response = last.trace.reasoned[1].answer
       /\ last.returned.response[1].confidence
              = last.trace.reasoned[1].confidence
       /\ get(response_cache, redis, now, last.request.query,
              last.request.intent, CacheKeyExtras(last.request)).ret
              = Hit(last.returned.response[1])

\* the last request searched its optimized queries in parallel
SearchedInParallel ==
    /\ Retrieved
    /\ last.trace.searched # None

\* the results of the branches that did not raise, in the order of the queries
RECURSIVE Arrived(_, _)
Arrived(searched, i) ==
    IF i > Len(searched) THEN <<>>
    ELSE (IF searched[i].raised THEN <<>> ELSE searched[i].results)
         \o Arrived(searched, i + 1)

\* the request ended in the branch of retrieve for no results
NoEvidencePath == last.trace.path \in {"no_results", "no_results_fallback"}

\* the response of the last request is made of the results merged, and the
\* no-evidence path is taken exactly when there is none
MadeOf(merged_ids, all_raised) ==
    /\ (NoEvidencePath <=> Len(merged_ids) = 0)
    /\ (all_raised => NoEvidencePath)
    /\ (last.trace.computed # None =>
           /\ last.returned = Returned(last.trace.computed[1])
           /\ merged_ids = [i \in 1..Len(last.trace.computed[1].sources) |->
                               last.trace.computed[1].sources[i].id])

\* the ids of results, in order
Ids(results) == [i \in 1..Len(results) |-> results[i].id]

\* C21: in the parallel strategy the results of a branch that raises are
\* discarded and the results of the other branches are still merged into
\* the response (its sources are the best top_k of them, one per id); the
\* request takes the no-evidence path only when no branch gave a result,
\* and it does when every branch raised.
C21_FailedBranchDiscarded ==
    SearchedInParallel =>
        MadeOf(Ids(Ranked(Arrived(last.trace.searched[1].searched, 1),
                          last.request.top_k)),
               \A i \in 1..Len(last.trace.searched[1].searched) :
                   last.trace.searched[1].searched[i].raised)

\* a parallel search in which one branch raised and the response is built
\* from the results of the branches that returned
C21_Witness ==
    /\ SearchedInParallel
    /\ \E i \in 1..Len(last.trace.searched[1].searched) :
           last.trace.searched[1].searched[i].raised
    /\ last.trace.computed # None
    /\ Len(last.trace.computed[1].sources) >= 2
    /\ last.returned = Returned(last.trace.computed[1])

\* the parallel search has started its tasks
TasksCreated == last.op = "parallel_search" /\ last.pc # "create"

\* C22: each parallel retriever call is bounded by a timeout: also when one
\* branch never returns, retrieve eventually responds.
C22_EventuallyResponds ==
    [](TasksCreated => <>(last.pc = "responded"))

(***************************************************************************)
(* Properties of flush.                                                    *)
(***************************************************************************)
\* the keys of the entries the backend in use holds
HeldKeys(self, srv, t) ==
    IF self.redis_client # None
    THEN {k \in DOMAIN srv.data : t < srv.data[k].expires_at}
    ELSE {self.memory_cache[i].key : i \in 1..Len(self.memory_cache)}

\* the pattern a flush call works with
FlushPattern(self, pattern_arg) ==
    IF pattern_arg = None THEN self.namespace \o ":*" ELSE pattern_arg[1]

\* C11: a flush removes exactly the entries whose key matches the prefix,
\* keeps every other entry, and returns the number of entries removed; with
\* no prefix it removes every entry of the namespace.
C11_FlushExact ==
    [][(/\ calls' = calls + 1
        /\ last'.op = "flush"
        /\ ~response_cache.disabled)
       => LET before == HeldKeys(response_cache, redis, now)
              after == HeldKeys(response_cache', redis', now')
              matching == {k \in before :
                              GlobMatch(FlushPattern(response_cache,
                                                     last'.pattern), k)}
          IN  /\ after = before \ matching
              /\ last'.ret = Cardinality(matching)]_vars

(***************************************************************************)
(* Properties of the multi-hop decision.                                   *)
(***************************************************************************)
\* the last call was an analysis that the reasoner answered
Analysed == last.op = "analysis" /\ last.result.status = 200

\* C12: should_use_multihop is true exactly when the lower-cased query
\* matches a complex-question pattern, or the previous confidence of the
\* context is below 0.5, or the conversation depth is above 2 and the query
\* mentions "error"; without context fields only a pattern triggers it.
C12_DecisionIffIndicator ==
    Analysed =>
        LET context == ContextOrEmpty(last.request.context)
            query_lower == str_lower(last.request.query)
            pattern == \E p \in 1..Len(complex_patterns) :
                          re_search(complex_patterns[p], query_lower)
            low == context.previous_confidence # None
                   /\ context.previous_confidence[1] < 50
            deep == context.conversation_depth # None
                    /\ context.conversation_depth[1] > 2
                    /\ str_contains(query_lower, "error")
        IN  /\ last.result.should_use_multihop = (pattern \/ low \/ deep)
            /\ (last.result.pattern_matches # {}) = pattern
            /\ (context = EmptyContext =>
                   last.result.should_use_multihop = pattern)

\* a deep conversation about an error triggers the decision without a pattern
C12_Witness ==
    /\ Analysed
    /\ last.result.should_use_multihop
    /\ last.result.pattern_matches = {}
    /\ last.result.deep_conversation_with_error
    /\ ~last.result.low_previous_confidence

(***************************************************************************)
(* Properties of the reasoner.                                             *)
(***************************************************************************)
\* the reason() call has returned
Reasoned == reasoning_state.pc = "done"

\* no two items of the sequence have the same id
UniqueIds(items) ==
    \A i, j \in 1..Len(items) : items[i].id = items[j].id => i = j

\* C13: when hop 1 yields no evidence (the search returns nothing, or nothing
\* at or above the relevance threshold of hop 1), reason() returns after that
\* one search with the failure result: confidence 0.1, no evidence, zero hops.
C13_NoEvidenceFails ==
    (/\ Reasoned
     /\ (Len(reasoning_state.hops) = 0
         \/ Len(reasoning_state.hops[1].evidence) = 0))
    => /\ Len(reasoning_state.searches) = 1
       /\ reasoning_state.result[1].confidence = Unit \div 10
       /\ reasoning_state.result[1].evidence = <<>>
       /\ reasoning_state.result[1].hops_performed = 0

\* C14: a reason() call searches once for hop 1 and returns after at most
\* max_hops searches in all, whatever the searches return.
C14_ReturnsWithinMaxHops ==
    /\ [](reasoning_state.pc # "idle" =>
             /\ Len(reasoning_state.searches) <= reasoning_state.max_hops
             /\ (Reasoned => Len(reasoning_state.searches) >= 1))
    /\ <>Reasoned

\* a call that used all its hops, one of them a follow-up that found nothing
C14_Witness ==
    /\ Reasoned
    /\ reasoning_state.max_hops >= 2
    /\ Len(reasoning_state.searches) = reasoning_state.max_hops
    /\ Len(reasoning_state.hops) < Len(reasoning_state.searches)
    /\ reasoning_state.result[1].hops_performed >= 1

\* C15: the evidence reason() returns never holds two items with the same
\* id; of a document found again on a later hop the first occurrence is kept.
C15_EvidenceUnique ==
    Reasoned => UniqueIds(reasoning_state.result[1].evidence)

\* the mean of the confidences (millionths) is above percent hundredths
MeanAbove(confidence_scores, percent) ==
    /\ Len(confidence_scores) > 0
    /\ 100 * SumSeq(confidence_scores)
          > percent * Unit * Len(confidence_scores)

\* C25: once the average of the confidences of the hops made so far is above
\* 0.8, reason() issues no further search, whatever concepts remain and
\* whatever max_hops allows.
C25_HighAverageStops ==
    [][(/\ reasoning_state.pc = "loop"
        /\ MeanAbove(reasoning_state.confidence_scores, 80))
       => reasoning_state'.searches = reasoning_state.searches]_vars

\* a call that stopped after a first hop of confidence 0.95 with concepts to
\* follow and hops left
C25_Witness ==
    /\ Reasoned
    /\ reasoning_state.confidence_scores = <<95 * (Unit \div 100)>>
    /\ Len(reasoning_state.follow_up_concepts) > 0
    /\ reasoning_state.current_hop <= reasoning_state.max_hops
    /\ Len(reasoning_state.searches) = 1
    /\ reasoning_state.result[1].hops_performed = 1

\* the follow-up queries the concepts mined from a hop give
QueriesFrom(hop, original_query, context) ==
    LET concepts == _extract_follow_up_concepts(hop, original_query, context)
    IN  {_generate_follow_up_query(concepts[c], original_query) :
            c \in 1..Len(concepts)}

\* C27: the query of every hop k >= 2 is generated from a follow-up concept
\* mined from the evidence of hop k-1, the hop just before it.
C27_ConceptsOfPreviousHop ==
    reasoning_state.pc \in {"loop", "done"} =>
        \A k \in 2..Len(reasoning_state.hops) :
            reasoning_state.hops[k].hop_number
                = reasoning_state.hops[k - 1].hop_number + 1
            => reasoning_state.hops[k].query
                   \in QueriesFrom(reasoning_state.hops[k - 1],
                                   reasoning_state.original_query,
                                   reasoning_state.context)

\* C26: within one reason() call no follow-up query that is searched is a
\* near-duplicate (Jaccard word overlap above 0.7) of a query searched
\* before it in the call, also after a follow-up hop that found nothing.
C26_NoNearDuplicateQuery ==
    reasoning_state.pc \in {"loop", "done"} =>
        \A j \in 2..Len(reasoning_state.searches) :
            ~_is_query_similar(reasoning_state.searches[j],
                               SubSeq(reasoning_state.searches, 1, j - 1))

\* the weight of the i-th hop confidence, in tenths
HopWeight(i) == CASE i = 1 -> 10 [] i = 2 -> 8 [] i = 3 -> 6 [] OTHER -> 4

\* the sum of f over 1..n
RECURSIVE SumTo(_, _)
SumTo(f, n) == IF n = 0 THEN 0 ELSE f[n] + SumTo(f, n - 1)

Merged == reasoning_state.pc = "merged"

\* the positions of docs that hold the first document of their id
FirstOfId(docs) ==
    {i \in 1..Len(docs) : \A j \in 1..(i - 1) : DocId(docs[j]) # DocId(docs[i])}

\* C16: the merged documents hold one document per id, the one of the
\* lowest hop (the first of that id among the collected documents), and when
\* no document carries a score they are in the order in which they were
\* collected
C16_MergeKeepsEarliest ==
    Merged =>
        LET docs == reasoning_state.all_docs
            merged == reasoning_state.result[1]
            FirstIn(i) == i \in FirstOfId(docs)
            positions == [i \in 1..Len(docs) |-> i]
            kept == SelectSeq(positions, FirstIn)
        IN  /\ \A i, j \in 1..Len(merged) :
                  i # j => DocId(merged[i]) # DocId(merged[j])
            /\ {merged[i] : i \in 1..Len(merged)} = {docs[i] : i \in FirstOfId(docs)}
            /\ \A i \in 1..Len(merged) : \A j \in 1..Len(docs) :
                  DocId(docs[j]) = DocId(merged[i])
                      => merged[i].hop_number <= docs[j].hop_number
            /\ (\A j \in 1..Len(docs) : docs[j].score = None)
                  => merged = [i \in 1..Len(kept) |-> docs[kept[i]]]

\* a and b found by hop 1 and a again by hop 2: a of hop 1 and b are returned
C16_Witness ==
    /\ Merged
    /\ reasoning_state.all_docs
         = TagHop(<<DocA, DocB>>, 1) \o TagHop(<<DocA>>, 2)
    /\ reasoning_state.result[1] = TagHop(<<DocA, DocB>>, 1)

(***************************************************************************)
(* Properties of the query transformer and of the optimizer.               *)
(***************************************************************************)
\* transform_query has returned
Transformed == last.op = "transform_query"

\* optimize_for_retrieval has returned
Optimized == last.op = "optimize_for_retrieval"

\* C17: the transformations that transform_query returns are in the order
\* of non-increasing confidence
C17_SortedByConfidence ==
    Transformed =>
        \A i, j \in 1..Len(last.ret) :
            i < j => last.ret[i].confidence >= last.ret[j].confidence

\* two strategies changed the query and the one tried first has the lower
\* confidence
C17_Witness ==
    /\ Transformed
    /\ \E i, j \in 1..Len(last.ret) :
          /\ i < j
          /\ last.ret[i].transformation_type = "ubuntu_expansion"
          /\ last.ret[j].transformation_type = "command_synonym"
          /\ last.ret[i].confidence > last.ret[j].confidence

\* the text on which the rule of a strategy works: the query, lower-cased by
\* all strategies but one and stripped by one
WorkingText(transformation_type, query) ==
    IF transformation_type = "version_specific" THEN query
    ELSE IF transformation_type = "question_reformulation"
    THEN str_strip(str_lower(query))
    ELSE str_lower(query)

\* C18: every transformation that transform_query returns comes from a
\* strategy whose rule changed something in the text it works on
C18_OnlyMatchingStrategies ==
    Transformed =>
        \A i \in 1..Len(last.ret) :
            last.ret[i].transformed_query
                # WorkingText(last.ret[i].transformation_type, last.query)

\* C19: when a strategy raises, the transformations of the strategies that
\* did not raise and changed the query are still returned
C19_FailureSkipsOnlyFailingStrategy ==
    Transformed =>
        LET strategies == Strategies(last.query, last.context)
        IN  \A k \in 1..Len(strategies) :
                (/\ strategies[k].tried
                 /\ ~strategies[k].outcome.raised
                 /\ strategies[k].outcome.value # last.query)
                => \E i \in 1..Len(last.ret) :
                      last.ret[i].transformation_type
                          = strategies[k].transformation_type

\* C20: the optimized queries begin with the original query and hold no
\* string twice
C20_OriginalFirstNoDuplicates ==
    Optimized =>
        /\ Len(last.ret.optimized_queries) >= 1
        /\ last.ret.optimized_queries[1] = last.query
        /\ \A i, j \in 1..Len(last.ret.optimized_queries) :
              i # j => last.ret.optimized_queries[i] # last.ret.optimized_queries[j]

\* transformations with the same text were applied and one of them is left
C20_Witness ==
    /\ Optimized
    /\ last.ret.transformations_applied >= 2
    /\ \E i, j \in 1..Len(last.ret.transformation_details) :
          /\ i # j
          /\ last.ret.transformation_details[i].transformed_query
                = last.ret.transformation_details[j].transformed_query
    /\ Len(last.ret.optimized_queries) <= last.ret.transformations_applied

\* the transformations of confidence at least percent hundredths
AtLeast(transformations, percent) ==
    {i \in 1..Len(transformations) : transformations[i].confidence >= percent}

\* selected is a choice among all as the optimizer is to make it: the
\* transformations of confidence 0.7 and more first, those between 0.5 and
\* 0.7 only when fewer than three of the former exist, never more than three
SelectedFrom(selected, all) ==
    /\ Len(selected) <= 3
    /\ \A i \in 1..Len(selected) :
          /\ \E j \in 1..Len(all) : all[j] = selected[i]
          /\ selected[i].confidence >= 50
          /\ (selected[i].confidence < 70
                 => Cardinality(AtLeast(all, 70)) < 3)
    /\ Cardinality(AtLeast(selected, 70))
          = Min(3, Cardinality(AtLeast(all, 70)))
    /\ Len(selected) = Min(3, Cardinality(AtLeast(all, 50)))

\* C30: the optimizer selects the transformations of confidence 0.7 and
\* more and, only when there are fewer than three of them, fills up with
\* those of confidence in [0.5, 0.7); it selects none below 0.5 and no more
\* than three, so that at most four optimized queries are searched.
C30_AtMostThreeSelected ==
    Optimized =>
        /\ SelectedFrom(last.ret.transformation_details,
                        transform_query(last.query, last.context))
        /\ Len(last.ret.optimized_queries) <= 4
        /\ last.ret.transformations_applied
              = Len(last.ret.transformation_details)

\* a call that fills up with a transformation of confidence 0.6
C30_Witness ==
    /\ Optimized
    /\ \E i \in 1..Len(last.ret.transformation_details) :
           last.ret.transformation_details[i].confidence < 70
    /\ Len(last.ret.optimized_queries) >= 3

\* the strings among the original query and the transformed queries
DistinctQueries ==
    {last.query}
    \cup {last.ret.transformation_details[i].transformed_query :
              i \in 1..Len(last.ret.transformation_details)}

\* C31: the strategy the optimizer returns is parallel exactly when more
\* than two distinct queries result, the original one included, and
\* sequential otherwise; retrieve searches concurrently exactly in the
\* parallel case.
C31_ParallelIffMoreThanTwo ==
    Optimized =>
        /\ last.ret.search_strategy
              = (IF Cardinality(DistinctQueries) > 2 THEN "parallel"
                 ELSE "sequential")
        /\ Cardinality(DistinctQueries) = Len(last.ret.optimized_queries)
        /\ RunsConcurrently(last.ret) <=> last.ret.search_strategy = "parallel"

\* a call that gives two queries, which are searched one after the other
C31_Witness ==
    /\ Optimized
    /\ Len(last.ret.optimized_queries) = 2
    /\ last.ret.search_strategy = "sequential"
    /\ ~RunsConcurrently(last.ret)

(***************************************************************************)
(* Properties of the in-memory backend.                                    *)
(***************************************************************************)
\* the ttl a recorded set stored its entry with
TtlOf(call) == IF call.ttl = None THEN response_cache.ttl ELSE call.ttl[1]

\* the step is a get of the in-memory backend that follows a set returning
\* True with the same arguments, with no call in between
GetRightAfterSet ==
    /\ response_cache.redis_client = None
    /\ last.op = "set" /\ last.ret
    /\ calls' = calls + 1
    /\ last'.op = "get"
    /\ last'.a = last.a

\* C36: on the in-memory backend, when set with a positive ttl returns True,
\* a get of the same key made right after it, before the ttl elapses,
\* returns the payload just stored, also when the map was at capacity.
C36_ReadYourWrite ==
    [][(/\ GetRightAfterSet
        /\ TtlOf(last) > 0
        /\ last'.t < last.t + TtlOf(last))
       => last'.ret = Hit(last.data)]_vars

\* the step is a get on the enabled in-memory backend
MemoryGet ==
    /\ response_cache.redis_client = None
    /\ ~response_cache.disabled
    /\ calls' = calls + 1
    /\ last'.op = "get"

\* C37: the in-memory backend never returns an entry at or after its expiry
\* time: a get of an expired key is a miss and removes the entry, and an
\* entry stored with an explicit ttl expires after that ttl, not after the
\* default.
C37_NoExpiredEntry ==
    [][MemoryGet =>
        LET key == _generate_key(response_cache, last'.a.query,
                                 last'.a.intent, last'.a.kwargs)
            i == DictIndex(response_cache.memory_cache, key)
        IN  /\ (i # 0 /\ now >= response_cache.memory_cache[i].expires_at)
                  => /\ last'.ret = Miss
                     /\ DictIndex(response_cache'.memory_cache, key) = 0
            /\ last'.ret # Miss
                  => /\ i # 0
                     /\ now < response_cache.memory_cache[i].expires_at
            /\ (lastSet.valid /\ lastSet.kept /\ lastSet.a = last'.a)
                  => (last'.ret # Miss <=> now < lastSet.t + TtlOf(lastSet))
      ]_vars

\* a get at the expiry time of an entry stored with an explicit ttl, other
\* than the default, was a miss and has removed the entry
C37_Witness ==
    /\ response_cache.redis_client = None
    /\ last.op = "get"
    /\ lastSet.valid /\ lastSet.kept /\ lastSet.a = last.a
    /\ lastSet.ttl # None /\ lastSet.ttl[1] # response_cache.ttl
    /\ last.t = lastSet.t + lastSet.ttl[1]
    /\ last.ret = Miss
    /\ ~Holds(response_cache, redis,
              _generate_key(response_cache, last.a.query, last.a.intent,
                            last.a.kwargs))

\* what a step adds to a counter of stats
Added(counter) ==
    response_cache'.stats[counter] - response_cache.stats[counter]

\* C39: on an enabled cache every get adds one to exactly one of hits,
\* misses and errors (to hits when it returns an entry, to errors when it
\* fails, to misses otherwise), nothing else changes hits or misses, and
\* hit_ratio is hits / (hits + misses), or 0 when no lookup completed.
C39_CountersFollowGets ==
    [][~response_cache.disabled =>
        /\ IF calls' = calls + 1 /\ last'.op = "get"
           THEN /\ Added("hits") = (IF last'.ret # Miss THEN 1 ELSE 0)
                /\ Added("errors") = (IF last'.raised THEN 1 ELSE 0)
                /\ Added("hits") + Added("misses") + Added("errors") = 1
           ELSE Added("hits") = 0 /\ Added("misses") = 0
        /\ (calls' = calls + 1 /\ last'.op = "get_stats")
              => /\ last'.ret.hit_ratio.num * (response_cache.stats.hits
                                               + response_cache.stats.misses)
                    = response_cache.stats.hits * last'.ret.hit_ratio.den
                 /\ (response_cache.stats.hits + response_cache.stats.misses = 0
                        => last'.ret.hit_ratio.num = 0)
      ]_vars

\* get_stats after a get that failed and no other lookup: the failure is
\* counted as an error and the ratio is 0
C39_Witness ==
    /\ last.op = "get_stats"
    /\ ~response_cache.disabled
    /\ response_cache.stats = [hits |-> 0, misses |-> 0, errors |-> 1]
    /\ last.ret.hit_ratio = Ratio(0, 1)

(***************************************************************************)
(* Properties of the responses served from the cache.                      *)
(***************************************************************************)
\* the responses retrieve can give the request when nothing is cached, over
\* everything the searches can return
FreshResponses(comp, request) ==
    {o.returned.response[1] :
        o \in {x \in retrieve(comp, NewCache(FALSE, FALSE),
                              [up |-> TRUE, data |-> NoRedisData], now,
                              request) : ~x.returned.raised}}

\* C35: the response to a request does not depend on the context of an
\* earlier request for the same query, intent and top_k: it is a response
\* that a fresh computation with the context of the request itself gives.
C35_IndependentOfEarlierContext ==
    (Retrieved /\ last.trace.path = "cache_hit")
        => last.returned.response[1] \in FreshResponses(components, last.request)

\* the step is a request to retrieve
RetrieveStep == calls' = calls + 1 /\ last'.op = "retrieve"

\* the step has put or replaced an entry of the cache
Wrote ==
    \/ redis'.data # redis.data
    \/ response_cache'.memory_cache # response_cache.memory_cache

\* the last request was computed, with a lookup that ended in a miss, and
\* its response has at most the confidence 0.5
ComputedLow ==
    /\ Retrieved
    /\ last.trace.path \notin {"cache_hit", "multi_hop"}
    /\ "cache_get" \notin last.trace.faults
    /\ last.returned.response[1].confidence <= 50

\* C38: a single-hop response is written to the cache only if its confidence
\* exceeds 0.5: the responses of the no-result path (confidence 0.3) and the
\* fallback responses are never written, and the same request made again
\* is computed again, not served from the cache.
C38_StoredOnlyIfConfident ==
    [][RetrieveStep =>
        /\ (Wrote /\ last'.trace.path # "multi_hop")
              => /\ last'.trace.path \in {"synthesized", "legacy"}
                 /\ ~last'.trace.excepted
                 /\ last'.returned.response[1].confidence > 50
        /\ (last'.trace.path \in {"no_results", "no_results_fallback",
                                  "legacy_fallback", "uninitialized"}
            \/ last'.trace.excepted)
              => /\ ~Wrote
                 /\ last'.returned.response[1].confidence = FallbackConfidence
        /\ (ComputedLow /\ last'.request = last.request)
              => last'.trace.path # "cache_hit"
      ]_vars

\* a request that found no result, made a second time: both lookups missed
\* and nothing is stored
C38_Witness ==
    /\ Retrieved
    /\ last.trace.path = "no_results"
    /\ last.returned.response[1].confidence = FallbackConfidence
    /\ calls = 2
    /\ response_cache.stats.misses = 2
    /\ response_cache.memory_cache = <<>>
    /\ redis.data = NoRedisData

\* the last request was answered on the single-hop path, from results of
\* its own searches or from a response stored by an earlier request
SingleHopAnswered ==
    /\ Retrieved
    /\ ~last.trace.excepted
    /\ last.trace.path \in {"synthesized", "legacy", "cache_hit"}

\* C40: the sources of a single-hop response hold no two items with the same
\* id, are in the order of non-increasing similarity and are at most top_k,
\* whatever number of queries was searched and whatever the searches gave.
C40_SourcesRanked ==
    SingleHopAnswered =>
        LET sources == last.returned.response[1].sources
        IN  /\ UniqueIds(sources)
            /\ \A i \in 1..(Len(sources) - 1) :
                   sources[i].similarity >= sources[i + 1].similarity
            /\ Len(sources) <= last.request.top_k

\* a response from several searches that gave one document twice, out of
\* order, and more results than top_k: the sources are exactly top_k
C40_Witness ==
    /\ SearchedInParallel
    /\ last.trace.path = "synthesized"
    /\ last.trace.computed # None
    /\ LET arrived == Arrived(last.trace.searched[1].searched, 1)
       IN  /\ Len(arrived) > last.request.top_k
           /\ ~UniqueIds(arrived)
           /\ \E i \in 1..(Len(arrived) - 1) :
                  arrived[i].similarity_score < arrived[i + 1].similarity_score
    /\ Len(last.returned.response[1].sources) = last.request.top_k

(***************************************************************************)
(* Properties of the cancellation.                                         *)
(***************************************************************************)
\* the request has been cancelled
Cancelled == last.op = "parallel_search" /\ last.pc = "cancelled"

\* C34: cancelling a request in flight stops what is left of its work (no
\* branch of its parallel search runs to its end any more) and leaves in
\* the cache only what requests that ran to their end have written.
C34_CancelStopsBranches ==
    [][/\ Cancelled => threads' = threads
       /\ Cancelled' => response_cache' = response_cache]_vars

(***************************************************************************)
(* Properties of the sequential search.                                    *)
(***************************************************************************)
\* the search gave a result of score above 0.8 (the results of a search are
\* in the order of their scores)
GaveGoodResult(found) ==
    /\ ~found.raised
    /\ \E k \in 1..Len(found.results) : found.results[k].similarity_score > 80

\* C32: in the sequential search, once the search of a query has given a
\* result of score above 0.8 no later query is searched; a query whose
\* search raises is skipped and the queries after it are still searched.
C32_StopsAtGoodResult ==
    last.op = "sequential_search" =>
        /\ \A k \in 1..Len(last.searched) :
              GaveGoodResult(last.searched[k]) => k = Len(last.searched)
        /\ \A k \in 1..Len(last.searched) :
              (last.searched[k].raised /\ k < Len(last.queries)
               /\ last.pc = "responded")
                 => Len(last.searched) > k
        /\ (last.pc = "responded"
            /\ \A k \in 1..Len(last.searched) :
                  ~GaveGoodResult(last.searched[k]))
              => Len(last.searched) = Len(last.queries)

\* the first search raised, the second one gave a good result and the
\* response is made of it
C32_Witness ==
    /\ last.op = "sequential_search"
    /\ last.pc = "responded"
    /\ Len(last.searched) = 2
    /\ last.searched[1].raised
    /\ GaveGoodResult(last.searched[2])
    /\ last.response # None

(***************************************************************************)
(* Properties of the follow-up suggestions.                                *)
(***************************************************************************)
\* the suggestions of the keyword table
TableSuggestions ==
    UNION {{followup_patterns[k].suggestions[n] :
               n \in 1..Len(followup_patterns[k].suggestions)} :
           k \in 1..Len(followup_patterns)}

\* the suggestions made from the content of a chunk
ContentSuggestions ==
    {"Do you need help running terminal commands?",
     "Would you like help with configuration files?",
     "Need help with package dependencies?"}

\* where a suggestion comes from: 1 the keyword table, 2 the context, 3 the
\* content
SuggestionRank(suggestion) ==
    IF suggestion \in TableSuggestions THEN 1
    ELSE IF suggestion \in ContentSuggestions THEN 3
    ELSE 2

\* C33: the synthesizer gives at most three follow-up suggestions, none of
\* them twice, those of the keyword table before those made from the
\* context, and these before those made from the content.
C33_FollowupsOrdered ==
    last.op = "_generate_followups" =>
        /\ Len(last.ret) <= 3
        /\ \A i, j \in 1..Len(last.ret) :
              i < j => /\ last.ret[i] # last.ret[j]
                       /\ SuggestionRank(last.ret[i])
                             <= SuggestionRank(last.ret[j])

\* a call with suggestions of the three kinds to choose from: two of the
\* keyword table and one of the context are given
C33_Witness ==
    /\ last.op = "_generate_followups"
    /\ Len(last.chunks) > 0
    /\ _generate_content_followups(last.chunks[1], last.query) # <<>>
    /\ Len(last.ret) = 3
    /\ SuggestionRank(last.ret[1]) = 1
    /\ SuggestionRank(last.ret[3]) = 2

(***************************************************************************)
(* Properties of the chunking.                                             *)
(***************************************************************************)
\* the service has loaded its corpus
CorpusLoaded == components.documents # None

\* C23: every chunk (is_chunk true) of the corpus that the chunking step
\* produced and the service loaded has as parent_id the id of a document
\* that is in the loaded corpus too.
C23_ParentInCorpus ==
    CorpusLoaded =>
        LET corpus == components.documents[1]
        IN  \A i \in 1..Len(corpus) :
                corpus[i].is_chunk =>
                    \E j \in 1..Len(corpus) :
                        corpus[i].parent_id = Some(corpus[j].id)

\* C24: every chunk that chunk_document returns has a content of at most
\* chunk_size characters, whatever the content and wherever its separators
\* are.
C24_ChunkFitsChunkSize ==
    last.op = "chunk_document" =>
        \A i \in 1..Len(last.ret) :
            Len(last.ret[i].content) <= components.document_chunker.chunk_size

====
